---- MODULE Spec2Model ----
(***************************************************************************)
(* A model of the cross-cutting mechanisms of node-it-glue: the pagination *)
(* engine (src/src/pagination.ts), the request executor with its retry     *)
(* policy (src/src/http.ts) and the status -> error mapping                *)
(* (src/src/errors.ts).                                                    *)
(***************************************************************************)
EXTENDS Integers, Sequences, FiniteSets, TLC

(***************************************************************************)
(* Bounds of the model.                                                    *)
(***************************************************************************)
\* the most calls of the page fetcher one iterator makes
MaxFetches == 3
\* the most items the remote puts on one page
MaxPageLen == 2
\* the largest maxItems option tried
MaxItemsOpt == 3

(***************************************************************************)
(* Optional values: a JavaScript number that may be undefined.             *)
(***************************************************************************)
NotGiven == [given |-> FALSE, n |-> 0]
Given(n) == [given |-> TRUE, n |-> n]

\* JavaScript truthiness of an optional number: undefined and 0 are falsy
Truthy(opt) == opt.given /\ opt.n # 0

Min(a, b) == IF a <= b THEN a ELSE b

(***************************************************************************)
(* Pagination engine, src/src/pagination.ts                                *)
(***************************************************************************)
DEFAULT_PAGE_SIZE == 50
MAX_PAGE_SIZE == 1000

\* meta.nextPage as the remote sends it: null, undefined (or no meta), a number
NextPageNull == [tag |-> "null", n |-> 0]
NextPageUndefined == [tag |-> "undefined", n |-> 0]
NextPageNumber(n) == [tag |-> "number", n |-> n]
NextPageVals == {NextPageNull, NextPageUndefined, NextPageNumber(2), NextPageNumber(7)}

\* the options a caller may construct an iterator with
PageSizeOpts == {NotGiven, Given(0), Given(100), Given(5000)}
StartPageOpts == {NotGiven, Given(0), Given(5)}
MaxItemsOpts == {NotGiven} \cup {Given(n) : n \in 0..MaxItemsOpt}

VARIABLES
    kind,           \* "item": createPaginatedIterator, "page": createPageIterator
    options,        \* the PaginationOptions the iterator was created with
    pageSize,       \* const pageSize
    startPage,      \* const startPage
    maxItems,       \* const maxItems (optional)
    currentPage,    \* let currentPage
    currentItems,   \* let currentItems
    currentIndex,   \* let currentIndex (0-based, as in the source)
    totalReturned,  \* let totalReturned
    hasMore,        \* let hasMore
    pc,             \* "idle": no next() in progress, "await": suspended in fetcher()
    fetchLog,       \* the page descriptors passed to the fetcher, in call order
    responses,      \* the pages the fetcher resolved with, in order
    yielded,        \* the values next() returned with done: false, in order
    lastResult      \* how the last next() settled: "none", "value", "done", "error"

pagVars == <<kind, options, pageSize, startPage, maxItems, currentPage, currentItems,
             currentIndex, totalReturned, hasMore, pc, fetchLog, responses, yielded,
             lastResult>>

(***************************************************************************)
(* State of the request executor, src/src/http.ts                          *)
(***************************************************************************)
VARIABLES
    maxRetries,     \* config.rateLimiter.maxRetries of the client
    attempt,        \* the retry engine's attempt index (0 for the first attempt)
    calls,          \* how many times the attempt function (request) was invoked
    rpc,            \* "call", "fetch", "settled", "backoff", "resolved", "rejected", "off"
    attemptLog,     \* what the transport did in each invocation of request() and
                    \* how the invocation settled, in order
    returned,       \* what requestWithRetry resolved with
    thrown,         \* what requestWithRetry rejected with
    operation,      \* the HttpClient method that called requestWithRetry
    deserializeCalls, \* the arguments deserialize was called with, in order
    opResult        \* how the HttpClient method settled

opVars == <<operation, deserializeCalls, opResult>>
reqVars ==
    <<maxRetries, attempt, calls, rpc, attemptLog, returned, thrown, operation,
      deserializeCalls, opResult>>

(***************************************************************************)
(* One application of createErrorFromResponse, src/src/errors.ts           *)
(***************************************************************************)
VARIABLES
    errStatus,      \* the statusCode argument
    errBody,        \* the response argument (the parsed body)
    errResult       \* the error returned

errVars == <<errStatus, errBody, errResult>>

(***************************************************************************)
(* Applications of the key conversions and of deserializeResource,         *)
(* src/src/jsonapi.ts                                                      *)
(***************************************************************************)
VARIABLES
    key,            \* the string the conversions start from
    keyTrace,       \* the conversions applied so far: function, argument, result
    resource,       \* the argument of the transcoder function applied: a wire
                    \* resource, an envelope, list params, data to serialize
    decoded,        \* what the function returned
    dpc             \* "start", "done", "off"

keyVars == <<key, keyTrace>>
resVars == <<resource, decoded, dpc>>

(***************************************************************************)
(* State of one RateLimiter, src/rate-limiter.ts                           *)
(***************************************************************************)
VARIABLES
    limiter,        \* the RateLimitConfig the limiter was constructed with
    requests,       \* the log: the times of the recorded requests, oldest first
    now,            \* the clock (Date.now()), in milliseconds
    lastCall,       \* the call just made on the limiter and what it returned
    callers         \* the concurrent calls of requestWithRetry on one client:
                    \* for each its position in request(), the end of its
                    \* wait, its timeout timer and what it has called so far

limVars == <<limiter, requests, now, lastCall>>
cliVars == <<callers>>

VARIABLES
    retry           \* one call of retryWithBackoff: its options, the attempts
                    \* made, where it is, and the waits it has inserted

bkVars == <<retry>>

vars == <<pagVars, reqVars, errVars, keyVars, resVars, limVars, cliVars, bkVars>>

\* what each component leaves alone
pagOthers == <<reqVars, errVars, keyVars, resVars, limVars, cliVars, bkVars>>
reqOthers == <<pagVars, errVars, keyVars, resVars, limVars, cliVars, bkVars>>
errOthers == <<pagVars, reqVars, keyVars, resVars, limVars, cliVars, bkVars>>
keyOthers == <<pagVars, reqVars, errVars, resVars, limVars, cliVars, bkVars>>
resOthers == <<pagVars, reqVars, errVars, keyVars, limVars, cliVars, bkVars>>
limOthers == <<pagVars, reqVars, errVars, keyVars, resVars, cliVars, bkVars>>
cliOthers == <<pagVars, reqVars, errVars, keyVars, resVars, bkVars>>
bkOthers == <<pagVars, reqVars, errVars, keyVars, resVars, limVars, cliVars>>

\* Math.min(options.pageSize || DEFAULT_PAGE_SIZE, MAX_PAGE_SIZE)
ResolvePageSize_Uncapped(opt) == IF Truthy(opt) THEN opt.n ELSE DEFAULT_PAGE_SIZE
ResolvePageSize(opt) ==
    Min(IF Truthy(opt) THEN opt.n ELSE DEFAULT_PAGE_SIZE, MAX_PAGE_SIZE)

\* options.startPage || 1
ResolveStartPage(opt) == IF Truthy(opt) THEN opt.n ELSE 1

\* meta?.nextPage !== null && meta?.nextPage !== undefined
HasMore_Always(nextPage) == TRUE
HasMore(nextPage) == nextPage.tag # "null" /\ nextPage.tag # "undefined"

\* maxItems !== undefined && totalReturned >= maxItems
MaxItemsReached_OffByOne(mi, total) == mi.given /\ total > mi.n
MaxItemsReached_Never(mi, total) == FALSE
MaxItemsReached(mi, total) == mi.given /\ total >= mi.n

\* all items of a sequence of pages, in page-then-within-page order
RECURSIVE Flatten(_)
Flatten(pages) ==
    IF pages = <<>> THEN <<>> ELSE Head(pages).data \o Flatten(Tail(pages))

\* a page of len fresh items: items are numbered in the order the remote serves them
FreshPage(len, nextPage) ==
    LET base == Len(Flatten(responses))
    IN  [data |-> [i \in 1..len |-> base + i], nextPage |-> nextPage]

PagInit ==
    /\ kind \in {"item", "page"}
    /\ options \in [pageSize : PageSizeOpts, startPage : StartPageOpts, maxItems : MaxItemsOpts]
    /\ kind = "page" => options.maxItems = NotGiven
    /\ pageSize = ResolvePageSize(options.pageSize)
    /\ startPage = ResolveStartPage(options.startPage)
    /\ maxItems = options.maxItems
    /\ currentPage = startPage
    /\ currentItems = <<>>
    /\ currentIndex = 0
    /\ totalReturned = 0
    /\ hasMore = TRUE
    /\ pc = "idle"
    /\ fetchLog = <<>>
    /\ responses = <<>>
    /\ yielded = <<>>
    /\ lastResult = "none"

\* await fetcher({number: currentPage, size: pageSize}): the call is made, next() suspends
CallFetcher ==
    /\ Len(fetchLog) < MaxFetches
    /\ fetchLog' = Append(fetchLog, [number |-> currentPage, size |-> pageSize])
    /\ pc' = "await"

\* createPaginatedIterator: next(), from its entry to its return or to the await
ItemNext ==
    /\ UNCHANGED pagOthers
    /\ kind = "item"
    /\ pc = "idle"
    /\ IF MaxItemsReached(maxItems, totalReturned)
       THEN /\ lastResult' = "done"
            /\ UNCHANGED <<currentIndex, totalReturned, yielded, pc, fetchLog>>
       ELSE IF currentIndex >= Len(currentItems) /\ hasMore
       THEN /\ CallFetcher
            /\ UNCHANGED <<currentIndex, totalReturned, yielded, lastResult>>
       ELSE IF currentIndex >= Len(currentItems)
       THEN /\ lastResult' = "done"
            /\ UNCHANGED <<currentIndex, totalReturned, yielded, pc, fetchLog>>
       ELSE /\ yielded' = Append(yielded, currentItems[currentIndex + 1])
            /\ currentIndex' = currentIndex + 1
            /\ totalReturned' = totalReturned + 1
            /\ lastResult' = "value"
            /\ UNCHANGED <<pc, fetchLog>>
    /\ UNCHANGED <<kind, options, pageSize, startPage, maxItems, currentPage,
                   currentItems, hasMore, responses>>

\* ItemFetchResolve without line 75 (currentIndex = 0): the offset into the previous
\* page is kept, so the while loop may run again or the page may look exhausted
ItemFetchResolve_NoIndexReset(response) ==
    /\ UNCHANGED pagOthers
    /\ kind = "item"
    /\ pc = "await"
    /\ responses' = Append(responses, response)
    /\ currentItems' = response.data
    /\ currentPage' = currentPage + 1
    /\ hasMore' = HasMore(response.nextPage)
    /\ IF Len(response.data) = 0
       THEN /\ lastResult' = "done"
            /\ pc' = "idle"
            /\ UNCHANGED <<currentIndex, totalReturned, yielded, fetchLog>>
       ELSE IF currentIndex >= Len(response.data) /\ hasMore'
       THEN /\ Len(fetchLog) < MaxFetches
            /\ fetchLog' = Append(fetchLog, [number |-> currentPage', size |-> pageSize])
            /\ pc' = "await"
            /\ UNCHANGED <<currentIndex, totalReturned, yielded, lastResult>>
       ELSE IF currentIndex >= Len(response.data)
       THEN /\ lastResult' = "done"
            /\ pc' = "idle"
            /\ UNCHANGED <<currentIndex, totalReturned, yielded, fetchLog>>
       ELSE /\ yielded' = Append(yielded, response.data[currentIndex + 1])
            /\ currentIndex' = currentIndex + 1
            /\ totalReturned' = totalReturned + 1
            /\ lastResult' = "value"
            /\ pc' = "idle"
            /\ UNCHANGED fetchLog
    /\ UNCHANGED <<kind, options, pageSize, startPage, maxItems>>

\* createPaginatedIterator: next() resumed with the fetcher's page, to its return
\* (a non-empty page leaves the while loop at once and its first item is returned)
ItemFetchResolve(response) ==
    /\ UNCHANGED pagOthers
    /\ kind = "item"
    /\ pc = "await"
    /\ responses' = Append(responses, response)
    /\ currentItems' = response.data
    /\ currentPage' = currentPage + 1
    /\ hasMore' = HasMore(response.nextPage)
    /\ pc' = "idle"
    /\ IF Len(response.data) = 0
       THEN /\ currentIndex' = 0
            /\ lastResult' = "done"
            /\ UNCHANGED <<totalReturned, yielded>>
       ELSE /\ yielded' = Append(yielded, response.data[1])
            /\ currentIndex' = 1
            /\ totalReturned' = totalReturned + 1
            /\ lastResult' = "value"
    /\ UNCHANGED <<kind, options, pageSize, startPage, maxItems, fetchLog>>

\* createPageIterator: next(), from its entry to its return or to the await
PageNext ==
    /\ UNCHANGED pagOthers
    /\ kind = "page"
    /\ pc = "idle"
    /\ IF ~hasMore
       THEN /\ lastResult' = "done"
            /\ UNCHANGED <<pc, fetchLog>>
       ELSE /\ CallFetcher
            /\ UNCHANGED lastResult
    /\ UNCHANGED <<kind, options, pageSize, startPage, maxItems, currentPage, currentItems,
                   currentIndex, totalReturned, hasMore, responses, yielded>>

\* PageFetchResolve with the first-page exemption of line 149 left out
PageFetchResolve_EmptyAlwaysEnds(response) ==
    /\ UNCHANGED pagOthers
    /\ kind = "page"
    /\ pc = "await"
    /\ responses' = Append(responses, response)
    /\ currentPage' = currentPage + 1
    /\ hasMore' = HasMore(response.nextPage)
    /\ pc' = "idle"
    /\ IF Len(response.data) = 0
       THEN /\ lastResult' = "done"
            /\ UNCHANGED yielded
       ELSE /\ yielded' = Append(yielded, response)
            /\ lastResult' = "value"
    /\ UNCHANGED <<kind, options, pageSize, startPage, maxItems, currentItems,
                   currentIndex, totalReturned, fetchLog>>

\* createPageIterator: next() resumed with the fetcher's page, to its return
PageFetchResolve(response) ==
    /\ UNCHANGED pagOthers
    /\ kind = "page"
    /\ pc = "await"
    /\ responses' = Append(responses, response)
    /\ currentPage' = currentPage + 1
    /\ hasMore' = HasMore(response.nextPage)
    /\ pc' = "idle"
    /\ IF Len(response.data) = 0 /\ currentPage' > startPage + 1
       THEN /\ lastResult' = "done"
            /\ UNCHANGED yielded
       ELSE /\ yielded' = Append(yielded, response)
            /\ lastResult' = "value"
    /\ UNCHANGED <<kind, options, pageSize, startPage, maxItems, currentItems,
                   currentIndex, totalReturned, fetchLog>>

\* either iterator: the awaited fetcher rejects, next() rejects with its error
FetchReject ==
    /\ UNCHANGED pagOthers
    /\ pc = "await"
    /\ pc' = "idle"
    /\ lastResult' = "error"
    /\ UNCHANGED <<kind, options, pageSize, startPage, maxItems, currentPage, currentItems,
                   currentIndex, totalReturned, hasMore, fetchLog, responses, yielded>>

PagNext ==
    \/ ItemNext
    \/ \E len \in 0..MaxPageLen, np \in NextPageVals : ItemFetchResolve(FreshPage(len, np))
    \/ PageNext
    \/ \E len \in 0..MaxPageLen, np \in NextPageVals : PageFetchResolve(FreshPage(len, np))
    \/ FetchReject

\* the pagination variables while no iterator exists
PagOff ==
    /\ kind = "none"
    /\ options = [pageSize |-> NotGiven, startPage |-> NotGiven, maxItems |-> NotGiven]
    /\ pageSize = 0
    /\ startPage = 0
    /\ maxItems = NotGiven
    /\ currentPage = 0
    /\ currentItems = <<>>
    /\ currentIndex = 0
    /\ totalReturned = 0
    /\ hasMore = FALSE
    /\ pc = "off"
    /\ fetchLog = <<>>
    /\ responses = <<>>
    /\ yielded = <<>>
    /\ lastResult = "none"

(***************************************************************************)
(* Error classes and the status mapping, src/src/errors.ts                 *)
(***************************************************************************)
\* a parsed response body: {errors?: JsonApiError[], message?: string}, or null.
\* An absent string is "", which || treats like undefined.
NoErrors == [given |-> FALSE, list |-> <<>>]
ErrorList(l) == [given |-> TRUE, list |-> l]
JsonApiError(detail, title) == [detail |-> detail, title |-> title]
Body(errors, message) == [isNull |-> FALSE, errors |-> errors, message |-> message]
NullBody == [isNull |-> TRUE, errors |-> NoErrors, message |-> ""]

Bodies ==
    { NullBody,
      Body(NoErrors, ""),
      Body(NoErrors, "m"),
      Body(ErrorList(<<>>), ""),
      Body(ErrorList(<<JsonApiError("x", "")>>), ""),
      Body(ErrorList(<<JsonApiError("", "t")>>), "m"),
      Body(ErrorList(<<JsonApiError("x", "t"), JsonApiError("y", "")>>), "") }

\* a || b on strings
OrElse(a, b) == IF a # "" THEN a ELSE b

\* an error object: its class (kind) and the fields the classes carry; timeout
\* is set by ITGlueTimeoutError and cause (the class of the underlying error) by
\* ITGlueNetworkError
ErrorObject(k, message, statusCode, response, errors) ==
    [kind |-> k, message |-> message, statusCode |-> statusCode,
     response |-> response, errors |-> errors, timeout |-> 0, cause |-> ""]
NoError == ErrorObject("none", "", 0, NullBody, <<>>)

ITGlueError(message, statusCode, response) ==
    ErrorObject("Generic", message, statusCode, response, <<>>)
ITGlueAuthenticationError(message, statusCode, response) ==
    ErrorObject("Authentication", message, statusCode, response, <<>>)
ITGlueNotFoundError(message, response) ==
    ErrorObject("NotFound", message, 404, response, <<>>)
ITGlueValidationError(message, errors, response) ==
    ErrorObject("Validation", message, 422, response, errors)
ITGlueRateLimitError(message, response) ==
    ErrorObject("RateLimit", message, 429, response, <<>>)
ITGlueServerError(message, statusCode, response) ==
    ErrorObject("Server", message, statusCode, response, <<>>)
ITGlueNetworkError(message, cause) ==
    [ErrorObject("Network", message, 0, NullBody, <<>>) EXCEPT !.cause = cause]
ITGlueTimeoutError(message, timeout) ==
    [ErrorObject("Timeout", message, 0, NullBody, <<>>) EXCEPT !.timeout = timeout]

\* errors?.[0]?.detail || errors?.[0]?.title || responseBody?.message
ResponseMessage(response) ==
    LET errors == response.errors
        first == IF errors.given /\ errors.list # <<>>
                 THEN errors.list[1] ELSE JsonApiError("", "")
    IN  OrElse(OrElse(first.detail, first.title), response.message)

\* createErrorFromResponse with the 403 case label missing
CreateErrorFromResponse_No403(statusCode, response) ==
    LET message == ResponseMessage(response)
    IN  CASE statusCode = 401 ->
               ITGlueAuthenticationError(
                   OrElse(message, "Authentication failed. Check your API key."),
                   statusCode, response)
          [] statusCode = 404 ->
               ITGlueNotFoundError(OrElse(message, "Resource not found."), response)
          [] statusCode = 422 ->
               ITGlueValidationError(
                   OrElse(message, "Validation failed."),
                   IF response.errors.given THEN response.errors.list ELSE <<>>,
                   response)
          [] statusCode = 429 ->
               ITGlueRateLimitError(OrElse(message, "Rate limit exceeded."), response)
          [] OTHER ->
               IF statusCode >= 500
               THEN ITGlueServerError(
                        OrElse(message, "Server error occurred."), statusCode, response)
               ELSE ITGlueError(
                        OrElse(message, "HTTP error " \o ToString(statusCode)),
                        statusCode, response)

CreateErrorFromResponse(statusCode, response) ==
    LET message == ResponseMessage(response)
    IN  CASE statusCode \in {401, 403} ->
               ITGlueAuthenticationError(
                   OrElse(message, "Authentication failed. Check your API key."),
                   statusCode, response)
          [] statusCode = 404 ->
               ITGlueNotFoundError(OrElse(message, "Resource not found."), response)
          [] statusCode = 422 ->
               ITGlueValidationError(
                   OrElse(message, "Validation failed."),
                   IF response.errors.given THEN response.errors.list ELSE <<>>,
                   response)
          [] statusCode = 429 ->
               ITGlueRateLimitError(OrElse(message, "Rate limit exceeded."), response)
          [] OTHER ->
               IF statusCode >= 500
               THEN ITGlueServerError(
                        OrElse(message, "Server error occurred."), statusCode, response)
               ELSE ITGlueError(
                        OrElse(message, "HTTP error " \o ToString(statusCode)),
                        statusCode, response)

\* the non-success status codes the mapping is applied to
ErrStatuses == {300, 304, 400, 401, 402, 403, 404, 409, 418, 422, 429, 451, 499,
                500, 502, 503, 599}

ErrInit ==
    /\ errStatus \in ErrStatuses
    /\ errBody \in Bodies
    /\ errResult = NoError

ErrOff ==
    /\ errStatus = 0
    /\ errBody = NullBody
    /\ errResult = NoError

\* one call createErrorFromResponse(errStatus, errBody)
ApplyCreateError ==
    /\ UNCHANGED errOthers
    /\ errStatus \in ErrStatuses
    /\ errResult = NoError
    /\ errResult' = CreateErrorFromResponse(errStatus, errBody)
    /\ UNCHANGED <<errStatus, errBody>>

ErrNext == ApplyCreateError

(***************************************************************************)
(* JSON:API transcoder, src/src/jsonapi.ts                                 *)
(***************************************************************************)
\* the longest string the key conversions are started from
MaxKeyLen == 5
\* how many conversions are applied in a row to one string
MaxConversions == 3
\* the most entries of the attributes and of the relationships of a resource
MaxEntries == 2

\* a string is the sequence of its characters
LowerChars ==
    <<"a", "b", "c", "d", "e", "f", "g", "h", "i", "j", "k", "l", "m",
      "n", "o", "p", "q", "r", "s", "t", "u", "v", "w", "x", "y", "z">>
UpperChars ==
    <<"A", "B", "C", "D", "E", "F", "G", "H", "I", "J", "K", "L", "M",
      "N", "O", "P", "Q", "R", "S", "T", "U", "V", "W", "X", "Y", "Z">>
\* the character classes [a-z] and [A-Z] of the two regular expressions
IsLower(c) == \E i \in 1..Len(LowerChars) : LowerChars[i] = c
IsUpper(c) == \E i \in 1..Len(UpperChars) : UpperChars[i] = c
ToUpperCase(c) ==
    IF IsLower(c)
    THEN UpperChars[CHOOSE i \in 1..Len(LowerChars) : LowerChars[i] = c]
    ELSE c
ToLowerCase(c) ==
    IF IsUpper(c)
    THEN LowerChars[CHOOSE i \in 1..Len(UpperChars) : UpperChars[i] = c]
    ELSE c

\* str.replace(/-([a-z])/g, (_, char) => char.toUpperCase()), scanning from i:
\* a match consumes the hyphen and the letter
RECURSIVE KebabToCamelFrom(_, _)
KebabToCamelFrom(str, i) ==
    IF i > Len(str)
    THEN <<>>
    ELSE IF str[i] = "-" /\ i < Len(str) /\ IsLower(str[i + 1])
    THEN <<ToUpperCase(str[i + 1])>> \o KebabToCamelFrom(str, i + 2)
    ELSE <<str[i]>> \o KebabToCamelFrom(str, i + 1)
kebabToCamel(str) == KebabToCamelFrom(str, 1)

\* str.replace(/([a-z])([A-Z])/g, '$1-$2'), scanning from i: a match consumes
\* the lowercase and the uppercase letter
RECURSIVE HyphenateFrom(_, _)
HyphenateFrom(str, i) ==
    IF i > Len(str)
    THEN <<>>
    ELSE IF IsLower(str[i]) /\ i < Len(str) /\ IsUpper(str[i + 1])
    THEN <<str[i], "-", str[i + 1]>> \o HyphenateFrom(str, i + 2)
    ELSE <<str[i]>> \o HyphenateFrom(str, i + 1)
camelToKebab(str) ==
    LET h == HyphenateFrom(str, 1)
    IN  [i \in 1..Len(h) |-> ToLowerCase(h[i])]

\* JSON values: null, undefined, scalars, arrays, and objects as the list of
\* their entries in insertion order (the order of Object.entries)
JsonNull == [t |-> "null"]
JsonUndefined == [t |-> "undefined"]
JsonScalar(v) == [t |-> "scalar", v |-> v]
JsonArray(items) == [t |-> "array", items |-> items]
JsonObject(entries) == [t |-> "object", entries |-> entries]
Entry(k, v) == [k |-> k, v |-> v]

HasKey(entries, k) == \E i \in 1..Len(entries) : entries[i].k = k
Lookup(entries, k) == entries[CHOOSE i \in 1..Len(entries) : entries[i].k = k].v
\* result[k] = v: a key that is there keeps its place and gets the new value
SetKey(entries, k, v) ==
    IF HasKey(entries, k)
    THEN [i \in 1..Len(entries) |->
            IF entries[i].k = k THEN Entry(k, v) ELSE entries[i]]
    ELSE Append(entries, Entry(k, v))
\* convertKeysToCamel, lines 30-49
RECURSIVE convertKeysToCamel(_)
RECURSIVE ConvertEntriesToCamel(_, _)
ConvertEntriesToCamel(entries, result) ==
    IF entries = <<>>
    THEN result
    ELSE ConvertEntriesToCamel(
             Tail(entries),
             SetKey(result, kebabToCamel(Head(entries).k),
                    convertKeysToCamel(Head(entries).v)))
convertKeysToCamel(obj) ==
    IF obj.t \in {"null", "undefined"}
    THEN obj
    ELSE IF obj.t = "array"
    THEN JsonArray([i \in 1..Len(obj.items) |-> convertKeysToCamel(obj.items[i])])
    ELSE IF obj.t = "object"
    THEN JsonObject(ConvertEntriesToCamel(obj.entries, <<>>))
    ELSE obj

\* a relationship's data: null, one link reference, or a list of them
LinkRef(id, type) == [id |-> id, type |-> type]
DataNull == [t |-> "null", refs |-> <<>>]
DataOne(ref) == [t |-> "one", refs |-> <<ref>>]
DataMany(refs) == [t |-> "many", refs |-> refs]
\* an optional map (attributes, relationships): left out, or its entries
Absent == [given |-> FALSE, entries |-> <<>>]
Present(entries) == [given |-> TRUE, entries |-> entries]
\* the decoded relationships: name -> list of link references
RelationshipList(refs) == [t |-> "links", refs |-> refs]
RelationshipsValue(entries) == [t |-> "relationships", entries |-> entries]

\* the loop dropping a relationship whose data is null
RECURSIVE RelationshipEntries_DropsNull(_, _)
RelationshipEntries_DropsNull(entries, result) ==
    IF entries = <<>>
    THEN result
    ELSE LET camelKey == kebabToCamel(Head(entries).k)
             value == Head(entries).v
         IN  RelationshipEntries_DropsNull(
                 Tail(entries),
                 IF value.t = "null"
                 THEN result
                 ELSE SetKey(result, camelKey, RelationshipList(value.refs)))
\* deserializeRelationships, lines 78-99: the loop over Object.entries
RECURSIVE RelationshipEntries(_, _)
RelationshipEntries(entries, result) ==
    IF entries = <<>>
    THEN result
    ELSE LET camelKey == kebabToCamel(Head(entries).k)
             value == Head(entries).v
             list == IF value.t = "null"
                     THEN <<>>
                     ELSE IF value.t = "many"
                     THEN value.refs
                     ELSE <<value.refs[1]>>
         IN  RelationshipEntries(Tail(entries),
                                 SetKey(result, camelKey, RelationshipList(list)))
deserializeRelationships(relationships) ==
    IF ~relationships.given
    THEN Absent
    ELSE LET result == RelationshipEntries(relationships.entries, <<>>)
         IN  IF Len(result) > 0 THEN Present(result) ELSE Absent

\* a wire resource
IdKey == <<"i", "d">>
TypeKey == <<"t", "y", "p", "e">>
RelationshipsKey ==
    <<"r", "e", "l", "a", "t", "i", "o", "n", "s", "h", "i", "p", "s">>
WireResource(id, type, attributes, relationships) ==
    [id |-> id, type |-> type, attributes |-> attributes,
     relationships |-> relationships]

\* the loop keeping what is already set
RECURSIVE AttributeEntries_FirstWins(_, _)
AttributeEntries_FirstWins(entries, result) ==
    IF entries = <<>>
    THEN result
    ELSE AttributeEntries_FirstWins(
             Tail(entries),
             IF HasKey(result, kebabToCamel(Head(entries).k))
             THEN result
             ELSE SetKey(result, kebabToCamel(Head(entries).k),
                         convertKeysToCamel(Head(entries).v)))
\* deserializeResource, lines 104-126: the loop over the attributes
RECURSIVE AttributeEntries(_, _)
AttributeEntries(entries, result) ==
    IF entries = <<>>
    THEN result
    ELSE AttributeEntries(
             Tail(entries),
             SetKey(result, kebabToCamel(Head(entries).k),
                    convertKeysToCamel(Head(entries).v)))
deserializeResource(res) ==
    LET start == <<Entry(IdKey, JsonScalar(res.id)),
                   Entry(TypeKey, JsonScalar(res.type))>>
        flat == IF res.attributes.given
                THEN AttributeEntries(res.attributes.entries, start)
                ELSE start
        relationships == deserializeRelationships(res.relationships)
    IN  IF relationships.given
        THEN SetKey(flat, RelationshipsKey, RelationshipsValue(relationships.entries))
        ELSE flat

\* the strings the conversions are started from: two lowercase letters, an
\* uppercase letter and the hyphen
KeyChars == {"a", "b", "B", "-"}
Keys == UNION {[1..n -> KeyChars] : n \in 0..MaxKeyLen}

KeyInit ==
    /\ key \in Keys
    /\ keyTrace = <<>>

KeyOff ==
    /\ key = <<>>
    /\ keyTrace = <<>>

\* the string the next conversion is applied to
CurrentKey == IF keyTrace = <<>> THEN key ELSE keyTrace[Len(keyTrace)].out

ApplyKebabToCamel ==
    /\ UNCHANGED keyOthers
    /\ Len(keyTrace) < MaxConversions
    /\ keyTrace' = Append(keyTrace, [fn |-> "kebabToCamel", arg |-> CurrentKey,
                                     out |-> kebabToCamel(CurrentKey)])
    /\ UNCHANGED key

ApplyCamelToKebab ==
    /\ UNCHANGED keyOthers
    /\ Len(keyTrace) < MaxConversions
    /\ keyTrace' = Append(keyTrace, [fn |-> "camelToKebab", arg |-> CurrentKey,
                                     out |-> camelToKebab(CurrentKey)])
    /\ UNCHANGED key

KeyNext ==
    \/ ApplyKebabToCamel
    \/ ApplyCamelToKebab

\* the wire resources deserializeResource is applied to
AttrKeys == {IdKey, RelationshipsKey, <<"a", "-", "b">>, <<"a", "B">>}
AttrValues ==
    { JsonScalar("v"),
      JsonObject(<<Entry(<<"c", "-", "d">>,
                         JsonArray(<<JsonObject(<<Entry(<<"e", "-", "f">>,
                                                        JsonNull)>>)>>))>>) }
RelNames == {<<"a", "-", "b">>, <<"a", "B">>, <<"c">>}
RelData ==
    { DataNull,
      DataOne(LinkRef("7", "x")),
      DataMany(<<>>),
      DataMany(<<LinkRef("7", "x"), LinkRef("8", "y")>>) }
\* the objects of at most MaxEntries entries: the keys of an object are distinct
Objects(keys, values) ==
    {es \in UNION {[1..n -> {Entry(k, v) : k \in keys, v \in values}] :
                      n \in 0..MaxEntries} :
        \A i, j \in 1..Len(es) : es[i].k = es[j].k => i = j}
OptionalObjects(keys, values) ==
    {Absent} \cup {Present(es) : es \in Objects(keys, values)}
WireResources ==
    {WireResource("1", "organizations", a, r) :
        a \in OptionalObjects(AttrKeys, AttrValues),
        r \in OptionalObjects(RelNames, RelData)}

ResInit ==
    /\ resource \in WireResources
    /\ decoded = <<>>
    /\ dpc = "start"

ResOff ==
    /\ resource = WireResource("", "", Absent, Absent)
    /\ decoded = <<>>
    /\ dpc = "off"

ApplyDeserializeResource ==
    /\ UNCHANGED resOthers
    /\ dpc = "start"
    /\ decoded' = deserializeResource(resource)
    /\ dpc' = "done"
    /\ UNCHANGED resource

ResNext == ApplyDeserializeResource

(***************************************************************************)
(* Encoding a request body, src/src/jsonapi.ts (serialize)                 *)
(***************************************************************************)
\* convertKeysToKebab, lines 54-73
RECURSIVE convertKeysToKebab(_)
RECURSIVE ConvertEntriesToKebab(_, _)
ConvertEntriesToKebab(entries, result) ==
    IF entries = <<>>
    THEN result
    ELSE ConvertEntriesToKebab(
             Tail(entries),
             SetKey(result, camelToKebab(Head(entries).k),
                    convertKeysToKebab(Head(entries).v)))
convertKeysToKebab(obj) ==
    IF obj.t \in {"null", "undefined"}
    THEN obj
    ELSE IF obj.t = "array"
    THEN JsonArray([i \in 1..Len(obj.items) |-> convertKeysToKebab(obj.items[i])])
    ELSE IF obj.t = "object"
    THEN JsonObject(ConvertEntriesToKebab(obj.entries, <<>>))
    ELSE obj

\* the loop without the test that skips id and type
RECURSIVE serializeAttributes_KeepsIdAndType(_, _)
serializeAttributes_KeepsIdAndType(entries, attributes) ==
    IF entries = <<>>
    THEN attributes
    ELSE serializeAttributes_KeepsIdAndType(
             Tail(entries),
             SetKey(attributes, camelToKebab(Head(entries).k),
                    convertKeysToKebab(Head(entries).v)))
\* serializeAttributes, lines 180-196: the loop over Object.entries(data)
RECURSIVE serializeAttributes(_, _)
serializeAttributes(entries, attributes) ==
    IF entries = <<>>
    THEN attributes
    ELSE serializeAttributes(
             Tail(entries),
             IF Head(entries).k = IdKey \/ Head(entries).k = TypeKey
             THEN attributes
             ELSE SetKey(attributes, camelToKebab(Head(entries).k),
                         convertKeysToKebab(Head(entries).v)))

\* the optional id argument: undefined, or a string
NoId == [given |-> FALSE, s |-> ""]
IdString(s) == [given |-> TRUE, s |-> s]
\* !id: undefined and the empty string are falsy
IdFalsy(id) == ~id.given \/ id.s = ""

\* serialize, lines 201-218: the resource of the envelope it returns, with its
\* id deleted when the id argument is falsy
serialize(type, data, id) ==
    [hasId |-> ~IdFalsy(id),
     id |-> IF IdFalsy(id) THEN "" ELSE id.s,
     type |-> type,
     attributes |-> serializeAttributes(data, <<>>)]

\* the calls of serialize: for create (no id) and update (an id), with data of
\* at most MaxEntries keys, among them id, type and two keys with one wire form
SerializeKeys ==
    {IdKey, TypeKey, <<"a", "B">>, <<"a", "-", "b">>, <<"I", "d">>}
SerializeValues ==
    { JsonScalar("v"),
      JsonObject(<<Entry(<<"c", "D">>,
                         JsonArray(<<JsonObject(<<Entry(<<"e", "F">>,
                                                        JsonNull)>>)>>))>>) }
SerializeCalls ==
    [type : {"organizations"}, data : Objects(SerializeKeys, SerializeValues),
     id : {NoId, IdString(""), IdString("123")}]

SerInit ==
    /\ resource \in SerializeCalls
    /\ decoded = <<>>
    /\ dpc = "start"

ApplySerialize ==
    /\ UNCHANGED resOthers
    /\ dpc = "start"
    /\ decoded' = serialize(resource.type, resource.data, resource.id)
    /\ dpc' = "done"
    /\ UNCHANGED resource

SerNext == ApplySerialize

(***************************************************************************)
(* Query parameters, src/src/jsonapi.ts (buildFilterParams,                *)
(* buildQueryParams) and src/src/resources/base.ts (buildListParams)       *)
(***************************************************************************)
\* the comparison operators, in the order buildFilterParams tests them
FilterOperators ==
    <<<<"g", "t">>, <<"g", "t", "e">>, <<"l", "t">>, <<"l", "t", "e">>>>
\* `[${key}]`
Bracketed(str) == <<"[">> \o str \o <<"]">>

\* 'gt' in value || 'gte' in value || 'lt' in value || 'lte' in value
IsOperatorObject(value) ==
    /\ value.t = "object"
    /\ \E i \in 1..Len(FilterOperators) : HasKey(value.entries, FilterOperators[i])

\* buildFilterParams, lines 284-295: result[`${key}[op]`] = operators.op for
\* each operator that is not undefined
RECURSIVE OperatorEntries(_, _, _, _)
OperatorEntries(field, operators, ops, result) ==
    IF ops = <<>>
    THEN result
    ELSE OperatorEntries(
             field, operators, Tail(ops),
             IF /\ HasKey(operators, Head(ops))
                /\ Lookup(operators, Head(ops)).t # "undefined"
             THEN SetKey(result, field \o Bracketed(Head(ops)),
                         Lookup(operators, Head(ops)))
             ELSE result)

\* buildFilterParams, lines 272-299: the loop over Object.entries(filter)
RECURSIVE FilterEntries(_, _)
FilterEntries(entries, result) ==
    IF entries = <<>>
    THEN result
    ELSE LET field == Head(entries).k
             value == Head(entries).v
         IN  FilterEntries(
                 Tail(entries),
                 IF value.t \in {"null", "undefined"}
                 THEN result
                 ELSE IF IsOperatorObject(value)
                 THEN OperatorEntries(field, value.entries, FilterOperators, result)
                 ELSE SetKey(result, field, value))
buildFilterParams(filter) ==
    IF ~filter.given THEN <<>> ELSE FilterEntries(filter.entries, <<>>)

\* the keys of the list params
FilterKey == <<"f", "i", "l", "t", "e", "r">>
PageKey == <<"p", "a", "g", "e">>
SortKey == <<"s", "o", "r", "t">>
IncludeKey == <<"i", "n", "c", "l", "u", "d", "e">>
ListParams(filter, page, sort, include) ==
    [given |-> TRUE, filter |-> filter, page |-> page, sort |-> sort,
     include |-> include]
NoParams ==
    [given |-> FALSE, filter |-> Absent, page |-> Absent, sort |-> JsonUndefined,
     include |-> JsonUndefined]

\* buildListParams, src/src/resources/base.ts lines 52-80
buildListParams(params) ==
    IF ~params.given
    THEN <<>>
    ELSE LET f == IF params.filter.given
                  THEN <<Entry(FilterKey, JsonObject(buildFilterParams(params.filter)))>>
                  ELSE <<>>
             p == IF params.page.given
                  THEN <<Entry(PageKey, JsonObject(params.page.entries))>>
                  ELSE <<>>
             o == IF params.sort.t # "undefined"
                  THEN <<Entry(SortKey, params.sort)>>
                  ELSE <<>>
             i == IF params.include.t # "undefined"
                  THEN <<Entry(IncludeKey, params.include)>>
                  ELSE <<>>
         IN  f \o p \o o \o i

\* value.join(','): the items of an array are numbers here
RECURSIVE Join(_)
Join(items) ==
    IF items = <<>>
    THEN ""
    ELSE IF Len(items) = 1
    THEN ToString(Head(items))
    ELSE ToString(Head(items)) \o "," \o Join(Tail(items))

\* buildQueryParams, lines 223-260: addParam, with searchParams.set as SetKey;
\* the scalars are strings, which String(value) leaves as they are
RECURSIVE AddParam(_, _, _)
RECURSIVE AddNested(_, _, _)
AddNested(prefix, entries, searchParams) ==
    IF entries = <<>>
    THEN searchParams
    ELSE LET kebabKey == camelToKebab(Head(entries).k)
             paramKey == IF prefix # <<>> THEN prefix \o Bracketed(kebabKey)
                         ELSE kebabKey
         IN  AddNested(prefix, Tail(entries),
                       AddParam(paramKey, Head(entries).v, searchParams))
AddParam(prefix, value, searchParams) ==
    IF value.t \in {"null", "undefined"}
    THEN searchParams
    ELSE IF value.t = "object"
    THEN AddNested(prefix, value.entries, searchParams)
    ELSE IF value.t = "array"
    THEN SetKey(searchParams, prefix, Join(value.items))
    ELSE SetKey(searchParams, prefix, value.v)
\* buildQueryParams: the loop over Object.entries(params)
RECURSIVE QueryEntries(_, _)
QueryEntries(entries, searchParams) ==
    IF entries = <<>>
    THEN searchParams
    ELSE QueryEntries(
             Tail(entries),
             IF Head(entries).v.t \in {"null", "undefined"}
             THEN searchParams
             ELSE AddParam(camelToKebab(Head(entries).k), Head(entries).v,
                           searchParams))
buildQueryParams(params) == QueryEntries(params, <<>>)

\* the list calls: a filter over three fields whose values are a string, an
\* array, operator objects, another object or null; a page; a sort; an include
FilterFields ==
    { <<"n", "a", "m", "e">>,
      <<"e", "x", "c", "l", "u", "d", "e", "I", "d">>,
      <<"c", "r", "e", "a", "t", "e", "d", "A", "t">> }
FilterValues ==
    { JsonScalar("Acme"),
      JsonArray(<<100, 200>>),
      JsonObject(<<Entry(FilterOperators[1], JsonScalar("2024-01-01"))>>),
      JsonObject(<<Entry(FilterOperators[4], JsonScalar("2025-01-01")),
                   Entry(FilterOperators[1], JsonScalar("2024-01-01"))>>),
      JsonObject(<<Entry(<<"i", "n">>, JsonScalar("x"))>>),
      JsonNull }
ListCalls ==
    {NoParams}
    \cup {ListParams(f, p, o, JsonUndefined) :
            f \in OptionalObjects(FilterFields, FilterValues),
            p \in {Absent,
                   Present(<<Entry(<<"s", "i", "z", "e">>, JsonScalar("100")),
                             Entry(<<"n", "u", "m", "b", "e", "r">>, JsonScalar("1"))>>)},
            o \in {JsonUndefined, JsonScalar("name")}}
    \cup {ListParams(Absent, Absent, JsonUndefined, JsonScalar("locations"))}

QueryInit ==
    /\ resource \in ListCalls
    /\ decoded = <<>>
    /\ dpc = "start"

\* list(params): the query parameters of the request it sends
ApplyBuildQuery ==
    /\ UNCHANGED resOthers
    /\ dpc = "start"
    /\ decoded' = buildQueryParams(buildListParams(resource))
    /\ dpc' = "done"
    /\ UNCHANGED resource

QueryNext == ApplyBuildQuery

(***************************************************************************)
(* Rate limiter, src/rate-limiter.ts (class RateLimiter)                   *)
(***************************************************************************)
\* the largest maxRequests a limiter is configured with
MaxRequestsCfg == 5
\* how far the clock runs, in milliseconds
MaxTime == 4
\* how many more requests than maxRequests the log is let to hold
MaxOverLimit == 1

\* the configurations: enabled or not, maxRequests, the window and the longest
\* throttling delay in milliseconds, and throttleThreshold as a percentage
\* (0.5, the default 0.8, and 1, the largest the configuration allows)
WindowMs == 3
RetryAfterMs == 3
ThrottlePcts == {50, 80, 100}
LimiterConfigs ==
    [enabled : BOOLEAN, maxRequests : 1..MaxRequestsCfg, windowMs : {WindowMs},
     throttlePct : ThrottlePcts, retryAfterMs : {RetryAfterMs}]

\* a delay in milliseconds, which the linear ramp makes a fraction
Ratio(num, den) == [num |-> num, den |-> den]
RatLeq(a, b) == a.num * b.den <= b.num * a.den
RatPos(a) == a.num > 0

\* an entry never leaving the window
InWindow_NeverExpires(t) == t <= now
\* an entry of the log is in the window: its time is within [now - windowMs, now]
InWindow(t) == t >= now - limiter.windowMs /\ t <= now
\* the log after the lazy pruning that every read of currentCount does
Pruned == SelectSeq(requests, InWindow)

\* the getters
CurrentCount == Len(Pruned)
Remaining_Unclamped == limiter.maxRequests - CurrentCount
Remaining ==
    IF limiter.maxRequests - CurrentCount > 0
    THEN limiter.maxRequests - CurrentCount
    ELSE 0
\* currentCount >= maxRequests * throttleThreshold, on exact fractions
AtThreshold(count) == count * 100 >= limiter.maxRequests * limiter.throttlePct
IsThrottling_Strict ==
    limiter.enabled /\ CurrentCount * 100 > limiter.maxRequests * limiter.throttlePct
IsThrottling == limiter.enabled /\ AtThreshold(CurrentCount)
IsLimited_Strict == limiter.enabled /\ CurrentCount > limiter.maxRequests
IsLimited == limiter.enabled /\ CurrentCount >= limiter.maxRequests

\* getDelayMs for a count and the time of the oldest entry in the window: 0
\* when not throttling; when limited the time until the oldest entry is out of
\* the window, at most windowMs; otherwise the linear ramp from 0 at the
\* threshold to retryAfterMs at maxRequests
DelayFor_FlatRamp(count, oldest) ==
    IF ~(limiter.enabled /\ AtThreshold(count))
    THEN Ratio(0, 1)
    ELSE IF count >= limiter.maxRequests
    THEN Ratio(Min(limiter.windowMs, oldest + limiter.windowMs + 1 - now), 1)
    ELSE Ratio(0, 1)
DelayFor(count, oldest) ==
    IF ~(limiter.enabled /\ AtThreshold(count))
    THEN Ratio(0, 1)
    ELSE IF count >= limiter.maxRequests
    THEN Ratio(Min(limiter.windowMs, oldest + limiter.windowMs + 1 - now), 1)
    ELSE Ratio(limiter.retryAfterMs
                   * (count * 100 - limiter.maxRequests * limiter.throttlePct),
               limiter.maxRequests * (100 - limiter.throttlePct))
OldestInWindow == IF Pruned = <<>> THEN now ELSE Pruned[1]
GetDelayMs == DelayFor(CurrentCount, OldestInWindow)

GetStatus ==
    [enabled |-> limiter.enabled, currentCount |-> CurrentCount,
     maxRequests |-> limiter.maxRequests, remaining |-> Remaining,
     windowMs |-> limiter.windowMs, isThrottling |-> IsThrottling,
     isLimited |-> IsLimited]

Getters ==
    {"currentCount", "remaining", "isThrottling", "isLimited", "getDelayMs",
     "getStatus"}
GetterValue(getter) ==
    CASE getter = "currentCount" -> CurrentCount
      [] getter = "remaining" -> Remaining
      [] getter = "isThrottling" -> IsThrottling
      [] getter = "isLimited" -> IsLimited
      [] getter = "getDelayMs" -> GetDelayMs
      [] getter = "getStatus" -> GetStatus
\* the call just made on the limiter: which, what it returned, and how many
\* entries it pruned from the log
Called(op, value, pruned) == [op |-> op, value |-> value, pruned |-> pruned]
NothingCalled == Called("none", 0, 0)

LimInit ==
    /\ limiter \in LimiterConfigs
    /\ requests = <<>>
    /\ now = 0
    /\ lastCall = NothingCalled

LimOff ==
    /\ limiter = [enabled |-> FALSE, maxRequests |-> 0, windowMs |-> 0,
                  throttlePct |-> 0, retryAfterMs |-> 0]
    /\ requests = <<>>
    /\ now = 0
    /\ lastCall = NothingCalled

\* recordRequest recording also when the limiter is disabled
RecordRequest_AlsoDisabled ==
    /\ UNCHANGED limOthers
    /\ Len(requests) < limiter.maxRequests + MaxOverLimit
    /\ requests' = Append(requests, now)
    /\ lastCall' = Called("recordRequest", 0, 0)
    /\ UNCHANGED <<limiter, now>>

\* recordRequest(): appends the current time to the log; no-op when disabled
RecordRequest ==
    /\ UNCHANGED limOthers
    /\ Len(requests) < limiter.maxRequests + MaxOverLimit
    /\ requests' = IF limiter.enabled THEN Append(requests, now) ELSE requests
    /\ lastCall' = Called("recordRequest", 0, 0)
    /\ UNCHANGED <<limiter, now>>

\* a getter is read: the entries older than the window leave the log
ReadGetter(getter) ==
    /\ UNCHANGED limOthers
    /\ requests' = Pruned
    /\ lastCall' = Called(getter, GetterValue(getter), Len(requests) - Len(Pruned))
    /\ UNCHANGED <<limiter, now>>

\* reset(): clears the log
Reset ==
    /\ UNCHANGED limOthers
    /\ requests' = <<>>
    /\ lastCall' = Called("reset", 0, 0)
    /\ UNCHANGED <<limiter, now>>

\* a millisecond passes
Tick ==
    /\ UNCHANGED limOthers
    /\ now < MaxTime
    /\ now' = now + 1
    /\ lastCall' = NothingCalled
    /\ UNCHANGED <<limiter, requests>>

LimNext ==
    \/ RecordRequest
    \/ \E getter \in Getters : ReadGetter(getter)
    \/ Reset
    \/ Tick

(***************************************************************************)
(* Request executor, src/src/http.ts: one requestWithRetry operation       *)
(***************************************************************************)
\* the most retries the client configuration asks for
MaxRetriesCfg == 3

\* what the transport (fetch) does in one attempt: it resolves with a response
\* (a status and a body, which may fail to parse as JSON) or it rejects
HttpStatuses == {200, 204, 400, 401, 404, 422, 429, 500}
RequestBodies == {Body(NoErrors, ""), Body(ErrorList(<<JsonApiError("x", "")>>), "")}
TransportOutcomes ==
    {[type |-> "response", status |-> s, body |-> b, parses |-> TRUE] :
        s \in HttpStatuses, b \in RequestBodies}
    \cup {[type |-> "response", status |-> s, body |-> NullBody, parses |-> FALSE] :
        s \in HttpStatuses}
    \cup {[type |-> t, status |-> 0, body |-> NullBody, parses |-> FALSE] :
        t \in {"AbortError", "TypeErrorFetch", "TypeErrorOther"}}

\* an exception that is no ITGlueError: a DOMException named AbortError, a
\* TypeError whose message includes 'fetch', another TypeError, a SyntaxError
ForeignError(k) == ErrorObject(k, "", 0, NullBody, <<>>)

\* how a call settles: with a value (undefined, or the parsed body) or with an error
Returns(defined, body) ==
    [ok |-> TRUE, value |-> [defined |-> defined, body |-> body], error |-> NoError]
Throws(error) ==
    [ok |-> FALSE, value |-> [defined |-> FALSE, body |-> NullBody], error |-> error]
Unsettled == [id |-> 0, transport |-> "none"] @@ Throws(NoError)

\* response.ok
ResponseOk(status) == status >= 200 /\ status <= 299

\* safeParseJson: the parsed body, null when parsing fails
SafeParseJson(outcome) == IF outcome.parses THEN outcome.body ELSE NullBody

\* request(), the try block: lines 108-128
RequestTry(outcome) ==
    IF outcome.type = "response"
    THEN IF ~ResponseOk(outcome.status)
         THEN Throws(CreateErrorFromResponse(outcome.status, SafeParseJson(outcome)))
         ELSE IF outcome.status = 204
         THEN Returns(FALSE, NullBody)
         ELSE IF outcome.parses
         THEN Returns(TRUE, outcome.body)
         ELSE Throws(ForeignError("SyntaxError"))
    ELSE Throws(ForeignError(outcome.type))

\* options.timeout ?? this.config.timeout: requestWithRetry passes no timeout
\* option, so the client's timeout (DEFAULT_CONFIG.timeout by default) is in force
RequestTimeout == 30000

\* request(), the catch block: lines 129-164
RequestCatch(error) ==
    IF error.kind \in {"Network", "Timeout", "RateLimit", "Server"}
    THEN error
    ELSE IF error.kind = "AbortError"
    THEN ITGlueTimeoutError(
             "Request timed out after " \o ToString(RequestTimeout) \o "ms",
             RequestTimeout)
    ELSE IF error.kind = "TypeErrorFetch"
    THEN ITGlueNetworkError("Network error occurred", error.kind)
    ELSE error

\* request(): how one attempt settles, given what the transport did
Request(outcome) ==
    LET t == RequestTry(outcome)
    IN  IF t.ok THEN t ELSE Throws(RequestCatch(t.error))

\* requestWithRetry: shouldRetry, lines 182-184
ShouldRetry_AlsoTransport(error) ==
    error.kind \in {"RateLimit", "Server", "Timeout", "Network"}
ShouldRetry(error) == error.kind \in {"RateLimit", "Server"}

\* requestWithRetry: maxRetries: this.config.rateLimiter.maxRetries, line 178
DEFAULT_MAX_RETRIES == 3
RetryMaxRetries_IgnoresConfig == DEFAULT_MAX_RETRIES
RetryMaxRetries == maxRetries

\* a JSON:API envelope with data: one resource or a list of them, and the
\* pagination meta, which may be left out and any of whose keys may be
NoMeta == [given |-> FALSE]
WireMeta(current, next, prev, pages, count) ==
    [given |-> TRUE, currentPage |-> current, nextPage |-> next,
     prevPage |-> prev, totalPages |-> pages, totalCount |-> count]
DataOneResource(res) == [isArray |-> FALSE, items |-> <<res>>]
DataList(items) == [isArray |-> TRUE, items |-> items]
Envelope(data, meta) ==
    [isNull |-> FALSE, errors |-> NoErrors, message |-> "", data |-> data,
     meta |-> meta]
EnvelopeResources ==
    << WireResource("1", "organizations",
                    Present(<<Entry(<<"a", "-", "b">>, JsonScalar("v"))>>), Absent),
       WireResource("2", "organizations", Absent,
                    Present(<<Entry(<<"c">>, DataNull)>>)) >>
Envelopes ==
    { Envelope(DataOneResource(EnvelopeResources[1]), NoMeta),
      Envelope(DataList(<<>>),
               WireMeta(NotGiven, NextPageUndefined, NextPageUndefined, NotGiven,
                        NotGiven)),
      Envelope(DataList(EnvelopeResources),
               WireMeta(Given(2), NextPageNumber(3), NextPageNumber(1), Given(3),
                        Given(5))) }
\* the transport resolving with a 200 response that carries an envelope
EnvelopeOutcomes ==
    {[type |-> "response", status |-> 200, body |-> b, parses |-> TRUE] :
        b \in Envelopes}
\* the body has a data member
HasData(body) == "data" \in DOMAIN body

\* deserializeMeta, src/src/jsonapi.ts lines 131-145
deserializeMeta(meta) ==
    IF ~meta.given
    THEN NoMeta
    ELSE [given |-> TRUE,
          currentPage |-> IF meta.currentPage.given THEN meta.currentPage.n ELSE 1,
          nextPage |-> IF meta.nextPage.tag = "number" THEN meta.nextPage
                       ELSE NextPageNull,
          prevPage |-> IF meta.prevPage.tag = "number" THEN meta.prevPage
                       ELSE NextPageNull,
          totalPages |-> IF meta.totalPages.given THEN meta.totalPages.n ELSE 1,
          totalCount |-> IF meta.totalCount.given THEN meta.totalCount.n ELSE 0]

\* what an operation resolves with: undefined, the parsed body as it is, a
\* decoded resource, or a list with its meta
UndefinedValue == [kind |-> "undefined"]
RawValue(value) ==
    IF value.defined THEN [kind |-> "body", body |-> value.body] ELSE UndefinedValue
ResourceValue(res) == [kind |-> "resource", resource |-> res]
ListValue(data, meta) == [kind |-> "list", data |-> data, meta |-> meta]
OpReturns(value) == [ok |-> TRUE, value |-> value, error |-> NoError]
OpThrows(error) == [ok |-> FALSE, value |-> UndefinedValue, error |-> error]
OpPending == [ok |-> FALSE, value |-> [kind |-> "pending"], error |-> NoError]

\* what the remote may put where a resource is expected: null, or a scalar
\* (a number, a string, a boolean)
NullItem == [nonObject |-> "null"]
ScalarItem == [nonObject |-> "scalar"]
IsResourceObject(item) == "nonObject" \notin DOMAIN item
\* deserializeResource called with one item of data: reading resource.id of
\* null throws a TypeError; of a scalar it gives undefined, like resource.type,
\* resource.attributes and resource.relationships
ItemThrows(item) == ~IsResourceObject(item) /\ item.nonObject = "null"
DeserializeItem(item) ==
    IF IsResourceObject(item)
    THEN deserializeResource(item)
    ELSE <<Entry(IdKey, JsonUndefined), Entry(TypeKey, JsonUndefined)>>

\* deserialize, src/src/jsonapi.ts lines 151-175, called with what
\* requestWithRetry resolved with: reading response.meta of undefined, or
\* resource.id of a missing data, throws a TypeError
deserialize(response) ==
    IF ~response.defined
    THEN OpThrows(ForeignError("TypeErrorOther"))
    ELSE IF ~HasData(response.body)
    THEN OpThrows(ForeignError("TypeErrorOther"))
    ELSE LET items == response.body.data.items
         IN  IF \E i \in 1..Len(items) : ItemThrows(items[i])
             THEN OpThrows(ForeignError("TypeErrorOther"))
             ELSE OpReturns(
                      [isArray |-> response.body.data.isArray,
                       items |-> [i \in 1..Len(items) |-> DeserializeItem(items[i])],
                       meta |-> deserializeMeta(response.body.meta)])

\* the envelopes deserialize is applied to: data left out, null, a scalar, one
\* resource, or a list of at most MaxListLen resources, nulls and scalars
MaxListLen == 2
DecodeItems == {EnvelopeResources[1], EnvelopeResources[2], NullItem, ScalarItem}
DecodeMetas ==
    {NoMeta,
     WireMeta(Given(2), NextPageNull, NextPageUndefined, NotGiven, Given(5))}
DecodeEnvelopes ==
    {Body(NoErrors, "")}
    \cup {Envelope(DataOneResource(r), NoMeta) : r \in WireResources}
    \cup {Envelope(DataOneResource(r), m) :
            r \in {NullItem, ScalarItem}, m \in DecodeMetas}
    \cup {Envelope(DataList(items), m) :
            items \in UNION {[1..n -> DecodeItems] : n \in 0..MaxListLen},
            m \in DecodeMetas}

DecInit ==
    /\ resource \in {[defined |-> TRUE, body |-> b] : b \in DecodeEnvelopes}
    /\ decoded = <<>>
    /\ dpc = "start"

ApplyDeserialize ==
    /\ UNCHANGED resOthers
    /\ dpc = "start"
    /\ decoded' = deserialize(resource)
    /\ dpc' = "done"
    /\ UNCHANGED resource

DecNext == ApplyDeserialize

\* the operations of the client: getAndDeserialize, list, getOne,
\* postAndDeserialize and patchAndDeserialize hand the response to deserialize;
\* delete (like get, post and patch) returns what requestWithRetry resolved with
Operations ==
    {"getAndDeserialize", "list", "getOne", "postAndDeserialize",
     "patchAndDeserialize", "delete"}
Deserializing ==
    {"getAndDeserialize", "list", "getOne", "postAndDeserialize",
     "patchAndDeserialize"}

\* Array.isArray(data) ? data[0] : data
FirstOrOnly(d) ==
    IF d.items = <<>> THEN UndefinedValue ELSE ResourceValue(d.items[1])

\* the fallback meta announcing a next page
DefaultListMeta_KeepsPaging(d) ==
    [given |-> TRUE, currentPage |-> 1, nextPage |-> NextPageNumber(2),
     prevPage |-> NextPageNull, totalPages |-> 1,
     totalCount |-> IF d.isArray THEN Len(d.items) ELSE 1]
\* list(), lines 255-270: the meta it falls back to
DefaultListMeta(d) ==
    [given |-> TRUE, currentPage |-> 1, nextPage |-> NextPageNull,
     prevPage |-> NextPageNull, totalPages |-> 1,
     totalCount |-> IF d.isArray THEN Len(d.items) ELSE 1]

\* what the operation does with the deserialized response
AfterDeserialize(op, d) ==
    IF op = "list"
    THEN ListValue(d.items, IF d.meta.given THEN d.meta ELSE DefaultListMeta(d))
    ELSE IF op = "getAndDeserialize"
    THEN [kind |-> "deserialized", isArray |-> d.isArray, data |-> d.items,
          meta |-> d.meta]
    ELSE FirstOrOnly(d)

\* the operation's code after requestWithRetry resolved with response
OperationReturn(op, response) ==
    IF op \in Deserializing
    THEN LET d == deserialize(response)
         IN  IF d.ok THEN OpReturns(AfterDeserialize(op, d.value)) ELSE d
    ELSE OpReturns(RawValue(response))

\* an operation is called: requestWithRetry is entered
OperationStart ==
    /\ maxRetries \in 0..MaxRetriesCfg
    /\ attempt = 0
    /\ calls = 0
    /\ rpc = "call"
    /\ attemptLog = <<>>
    /\ returned = Unsettled
    /\ thrown = Unsettled
    /\ deserializeCalls = <<>>
    /\ opResult = OpPending

\* requestWithRetry called by itself
ReqInit == OperationStart /\ operation = "requestWithRetry"

\* one of the client's operations called
OpInit == OperationStart /\ operation \in Operations

ReqOff ==
    /\ maxRetries = 0
    /\ attempt = 0
    /\ calls = 0
    /\ rpc = "off"
    /\ attemptLog = <<>>
    /\ returned = Unsettled
    /\ thrown = Unsettled
    /\ operation = "none"
    /\ deserializeCalls = <<>>
    /\ opResult = OpPending

\* retryWithBackoff invokes the attempt function: request() runs to await fetch
RetryInvoke ==
    /\ UNCHANGED reqOthers
    /\ UNCHANGED opVars
    /\ rpc = "call"
    /\ rpc' = "fetch"
    /\ calls' = calls + 1
    /\ UNCHANGED <<maxRetries, attempt, attemptLog, returned, thrown>>

\* request() resumed by the transport, to its return or throw
RequestSettle(outcome) ==
    /\ UNCHANGED reqOthers
    /\ UNCHANGED opVars
    /\ rpc = "fetch"
    /\ rpc' = "settled"
    /\ attemptLog' = Append(attemptLog,
                          [id |-> calls, transport |-> outcome.type] @@ Request(outcome))
    /\ UNCHANGED <<maxRetries, attempt, calls, returned, thrown>>

\* retryWithBackoff rejecting with the first attempt's error instead of the last
RetryOnSettled_ThrowsFirst ==
    /\ UNCHANGED reqOthers
    /\ UNCHANGED opVars
    /\ rpc = "settled"
    /\ LET r == attemptLog[Len(attemptLog)]
       IN  IF r.ok
           THEN /\ rpc' = "resolved"
                /\ returned' = r
                /\ UNCHANGED thrown
           ELSE IF ~ShouldRetry(r.error) \/ attempt + 1 > RetryMaxRetries
           THEN /\ rpc' = "rejected"
                /\ thrown' = attemptLog[1]
                /\ UNCHANGED returned
           ELSE /\ rpc' = "backoff"
                /\ UNCHANGED <<returned, thrown>>
    /\ UNCHANGED <<maxRetries, attempt, calls, attemptLog>>

\* retryWithBackoff after the attempt settled: return its value, re-raise its
\* error, or start waiting before the next attempt
RetryOnSettled ==
    /\ UNCHANGED reqOthers
    /\ UNCHANGED opVars
    /\ rpc = "settled"
    /\ LET r == attemptLog[Len(attemptLog)]
       IN  IF r.ok
           THEN /\ rpc' = "resolved"
                /\ returned' = r
                /\ UNCHANGED thrown
           ELSE IF ~ShouldRetry(r.error) \/ attempt + 1 > RetryMaxRetries
           THEN /\ rpc' = "rejected"
                /\ thrown' = r
                /\ UNCHANGED returned
           ELSE /\ rpc' = "backoff"
                /\ UNCHANGED <<returned, thrown>>
    /\ UNCHANGED <<maxRetries, attempt, calls, attemptLog>>

\* retryWithBackoff: the backoff delay has elapsed, the loop goes round
RetryBackoffElapsed ==
    /\ UNCHANGED reqOthers
    /\ UNCHANGED opVars
    /\ rpc = "backoff"
    /\ rpc' = "call"
    /\ attempt' = attempt + 1
    /\ UNCHANGED <<maxRetries, calls, attemptLog, returned, thrown>>

\* listAll, src/src/resources/base.ts lines 106-122: an item iterator with
\* pageSize DEFAULT_PAGE_SIZE whose fetcher is client.list. The remote answers
\* with a list of len fresh resources and a meta, which it may leave out
ListAllMetas ==
    { NoMeta,
      WireMeta(NotGiven, NextPageUndefined, NextPageUndefined, NotGiven, NotGiven),
      WireMeta(Given(2), NextPageNumber(3), NextPageUndefined, NotGiven, Given(5)),
      WireMeta(NotGiven, NextPageNull, NextPageNumber(1), Given(3), NotGiven),
      WireMeta(Given(1), NextPageNumber(2), NextPageNull, Given(2), Given(4)) }
FreshEnvelope(len, meta) ==
    LET base == Len(Flatten(responses))
    IN  Envelope(
            DataList([i \in 1..len |->
                        WireResource(base + i, "organizations", Absent, Absent)]),
            meta)
\* what the fetcher of listAll returns for what the remote answered: the
\* result of client.list, kept with the meta the remote sent
ListAllPage(envelope) ==
    LET r == OperationReturn("list", [defined |-> TRUE, body |-> envelope]).value
    IN  [data |-> r.data, nextPage |-> r.meta.nextPage, meta |-> r.meta,
         wireMeta |-> envelope.meta]

ListAllInit ==
    /\ kind = "item"
    /\ options = [pageSize |-> Given(DEFAULT_PAGE_SIZE), startPage |-> NotGiven,
                  maxItems |-> NotGiven]
    /\ pageSize = ResolvePageSize(options.pageSize)
    /\ startPage = ResolveStartPage(options.startPage)
    /\ maxItems = options.maxItems
    /\ currentPage = startPage
    /\ currentItems = <<>>
    /\ currentIndex = 0
    /\ totalReturned = 0
    /\ hasMore = TRUE
    /\ pc = "idle"
    /\ fetchLog = <<>>
    /\ responses = <<>>
    /\ yielded = <<>>
    /\ lastResult = "none"

ListAllNext ==
    \/ ItemNext
    \/ \E len \in 0..MaxPageLen, meta \in ListAllMetas :
          ItemFetchResolve(ListAllPage(FreshEnvelope(len, meta)))
    \/ FetchReject

\* the operation resumes after await requestWithRetry: a rejection passes
\* through, a response is decoded or returned as it is
OperationSettle ==
    /\ UNCHANGED reqOthers
    /\ rpc \in {"resolved", "rejected"}
    /\ opResult = OpPending
    /\ IF rpc = "rejected"
       THEN /\ opResult' = OpThrows(thrown.error)
            /\ UNCHANGED deserializeCalls
       ELSE /\ opResult' = OperationReturn(operation, returned.value)
            /\ deserializeCalls' =
                 IF operation \in Deserializing
                 THEN Append(deserializeCalls, returned.value)
                 ELSE deserializeCalls
    /\ UNCHANGED <<maxRetries, attempt, calls, rpc, attemptLog, returned, thrown,
                   operation>>

ReqNext ==
    \/ RetryInvoke
    \/ \E outcome \in TransportOutcomes \cup EnvelopeOutcomes : RequestSettle(outcome)
    \/ RetryOnSettled
    \/ RetryBackoffElapsed
    \/ OperationSettle

(***************************************************************************)
(* Specifications: one component runs, the others do not exist             *)
(***************************************************************************)
(* Concurrent requests on one client, src/src/http.ts (request,            *)
(* requestWithRetry) over the one rate limiter of the client               *)
(***************************************************************************)
\* how many calls of requestWithRetry run concurrently, and the largest
\* maxRequests of the limiter they share
MaxCallers == 2
Callers == 1..MaxCallers
\* config.rateLimiter.maxRetries of the client the callers share
ClientRetries == 1

ClientConfigs ==
    {c \in LimiterConfigs : c.maxRequests <= MaxCallers /\ c.throttlePct # 80}
\* what the transport does in an attempt: a 200, a 204, a 404, a 500, or a failure
ClientOutcomes ==
    {o \in TransportOutcomes :
        o.type = "response"
        => o.parses /\ o.body = Body(NoErrors, "") /\ o.status \in {200, 204, 404, 500}}

\* a caller before its first attempt
IdleCaller ==
    [pc |-> "idle", wake |-> Ratio(0, 1), timer |-> "none", attempt |-> 0,
     trace |-> <<>>, records |-> 0, appended |-> 0]

\* the time a sleep of delay milliseconds started now ends
SleepUntil(delay) == Ratio(now * delay.den + delay.num, delay.den)
\* recordRequest(): the log after it
RecordedLog == IF limiter.enabled THEN Append(requests, now) ELSE requests

CliInit ==
    /\ limiter \in ClientConfigs
    /\ requests = <<>>
    /\ now = 0
    /\ lastCall = NothingCalled
    /\ callers = [c \in Callers |-> IdleCaller]

CliOff == callers = <<>>

\* request() is entered, for the first attempt or by retryWithBackoff after a
\* backoff: line 80, await this.rateLimiter.waitIfNeeded(), which reads
\* getDelayMs (pruning the log) and suspends the caller for that long
CallRequest(c) ==
    /\ UNCHANGED cliOthers
    /\ callers[c].pc \in {"idle", "backoff"}
    /\ callers' = [callers EXCEPT ![c] =
                      [@ EXCEPT !.pc = "wait",
                                !.wake = SleepUntil(GetDelayMs),
                                !.attempt = @ + 1,
                                !.trace = <<"waitIfNeeded">>]]
    /\ requests' = Pruned
    /\ UNCHANGED <<limiter, now, lastCall>>

\* the wait is over, with fetch called before the request is recorded
ResumeRequest_FetchFirst(c) ==
    /\ UNCHANGED cliOthers
    /\ callers[c].pc = "wait"
    /\ RatLeq(callers[c].wake, Ratio(now, 1))
    /\ callers' = [callers EXCEPT ![c] =
                      [@ EXCEPT !.pc = "fetch",
                                !.timer = "armed",
                                !.trace = @ \o <<"fetch", "recordRequest">>,
                                !.records = @ + 1,
                                !.appended = @ + Len(RecordedLog) - Len(requests)]]
    /\ requests' = RecordedLog
    /\ UNCHANGED <<limiter, now, lastCall>>

\* the wait is over: lines 82-111 run without suspending: the timeout timer is
\* armed, the request is recorded, fetch is called and awaited
ResumeRequest(c) ==
    /\ UNCHANGED cliOthers
    /\ callers[c].pc = "wait"
    /\ RatLeq(callers[c].wake, Ratio(now, 1))
    /\ callers' = [callers EXCEPT ![c] =
                      [@ EXCEPT !.pc = "fetch",
                                !.timer = "armed",
                                !.trace = @ \o <<"recordRequest", "fetch">>,
                                !.records = @ + 1,
                                !.appended = @ + Len(RecordedLog) - Len(requests)]]
    /\ requests' = RecordedLog
    /\ UNCHANGED <<limiter, now, lastCall>>

\* the timeout timer goes off: controller.abort(), lines 104-106
TimerFires(c) ==
    /\ UNCHANGED cliOthers
    /\ callers[c].timer = "armed"
    /\ callers' = [callers EXCEPT ![c].timer = "fired"]
    /\ UNCHANGED limVars

\* where an attempt that settled with result leaves the caller
AfterAttempt(made, result) ==
    IF result.ok
    THEN "done"
    ELSE IF ShouldRetry(result.error) /\ made <= ClientRetries
    THEN "backoff"
    ELSE "failed"

\* the attempt settling with the timer cleared only after a response
FetchSettle_NoClearInCatch(c, outcome) ==
    /\ UNCHANGED cliOthers
    /\ callers[c].pc = "fetch"
    /\ outcome.type = "AbortError" <=> callers[c].timer = "fired"
    /\ callers' = [callers EXCEPT ![c] =
                      [@ EXCEPT !.pc = AfterAttempt(callers[c].attempt, Request(outcome)),
                                !.timer = IF outcome.type = "response"
                                          THEN "cleared" ELSE @]]
    /\ UNCHANGED limVars

\* the awaited fetch settles and request() runs to its end: clearTimeout at
\* line 113 after a response or at line 130 in the catch block; an aborted
\* fetch rejects with an AbortError, and only an aborted one does
FetchSettle(c, outcome) ==
    /\ UNCHANGED cliOthers
    /\ callers[c].pc = "fetch"
    /\ outcome.type = "AbortError" <=> callers[c].timer = "fired"
    /\ callers' = [callers EXCEPT ![c] =
                      [@ EXCEPT !.pc = AfterAttempt(callers[c].attempt, Request(outcome)),
                                !.timer = "cleared"]]
    /\ UNCHANGED limVars

CliNext ==
    \/ \E c \in Callers : CallRequest(c)
    \/ \E c \in Callers : ResumeRequest(c)
    \/ \E c \in Callers : TimerFires(c)
    \/ \E c \in Callers, outcome \in ClientOutcomes : FetchSettle(c, outcome)
    \/ Tick

(***************************************************************************)
(* Retry engine, src/rate-limiter.ts (retryWithBackoff)                    *)
(***************************************************************************)
\* how far the random jitter may move a delay, either way, in milliseconds
MaxJitter == 2

\* the options: maxRetries, baseDelayMs and maxDelayMs
BackoffConfigs ==
    [maxRetries : 0..MaxRetriesCfg, baseDelayMs : {1, 3}, maxDelayMs : {5, 20}]

\* the delay without the cap of maxDelayMs
BackoffBase_Uncapped(cfg, index) == cfg.baseDelayMs * 2 ^ index
\* min(maxDelayMs, baseDelayMs * 2^attemptIndex)
BackoffBase(cfg, index) ==
    IF cfg.baseDelayMs * 2 ^ index <= cfg.maxDelayMs
    THEN cfg.baseDelayMs * 2 ^ index
    ELSE cfg.maxDelayMs
\* the delay with its jitter, kept within [0, maxDelayMs]
BackoffDelay(cfg, index, jitter) ==
    LET d == BackoffBase(cfg, index) + jitter
    IN  IF d < 0 THEN 0 ELSE IF d > cfg.maxDelayMs THEN cfg.maxDelayMs ELSE d

BkInit ==
    retry \in {[cfg |-> cfg, attempts |-> 0, pc |-> "call", waits |-> <<>>] :
                  cfg \in BackoffConfigs}

BkOff ==
    retry = [cfg |-> [maxRetries |-> 0, baseDelayMs |-> 0, maxDelayMs |-> 0],
             attempts |-> 0, pc |-> "off", waits |-> <<>>]

\* attempt() is executed and settles: a success is returned at once; a failure
\* is re-raised at once when shouldRetry refuses it or the retries are used up
BackoffAttempt(ok, retryable) ==
    /\ UNCHANGED bkOthers
    /\ retry.pc = "call"
    /\ retry' = [retry EXCEPT
                    !.attempts = @ + 1,
                    !.pc = IF ok
                           THEN "resolved"
                           ELSE IF ~retryable \/ retry.attempts + 1 > retry.cfg.maxRetries
                           THEN "rejected"
                           ELSE "wait"]

\* the wait before the next attempt, with its jitter
BackoffWait(jitter) ==
    /\ UNCHANGED bkOthers
    /\ retry.pc = "wait"
    /\ retry' = [retry EXCEPT
                    !.pc = "call",
                    !.waits = Append(@, [index |-> retry.attempts - 1,
                                         base |-> BackoffBase(retry.cfg,
                                                              retry.attempts - 1),
                                         wait |-> BackoffDelay(retry.cfg,
                                                               retry.attempts - 1,
                                                               jitter)])]

BkNext ==
    \/ \E ok \in BOOLEAN, retryable \in BOOLEAN : BackoffAttempt(ok, retryable)
    \/ \E jitter \in -MaxJitter..MaxJitter : BackoffWait(jitter)

(***************************************************************************)
InitPagination == PagInit /\ ReqOff /\ ErrOff /\ KeyOff /\ ResOff /\ LimOff /\ CliOff /\ BkOff
SpecPagination == InitPagination /\ [][PagNext]_vars

InitErrors == ErrInit /\ PagOff /\ ReqOff /\ KeyOff /\ ResOff /\ LimOff /\ CliOff /\ BkOff
SpecErrors == InitErrors /\ [][ErrNext]_vars

InitKeys == KeyInit /\ PagOff /\ ReqOff /\ ErrOff /\ ResOff /\ LimOff /\ CliOff /\ BkOff
SpecKeys == InitKeys /\ [][KeyNext]_vars

InitResource == ResInit /\ PagOff /\ ReqOff /\ ErrOff /\ KeyOff /\ LimOff /\ CliOff /\ BkOff
SpecResource == InitResource /\ [][ResNext]_vars

InitLimiter == LimInit /\ PagOff /\ ReqOff /\ ErrOff /\ KeyOff /\ ResOff /\ CliOff /\ BkOff
SpecLimiter == InitLimiter /\ [][LimNext]_vars

InitDecode == DecInit /\ PagOff /\ ReqOff /\ ErrOff /\ KeyOff /\ LimOff /\ CliOff /\ BkOff
SpecDecode == InitDecode /\ [][DecNext]_vars

InitListAll == ListAllInit /\ ReqOff /\ ErrOff /\ KeyOff /\ ResOff /\ LimOff /\ CliOff /\ BkOff
SpecListAll == InitListAll /\ [][ListAllNext]_vars

InitQuery == QueryInit /\ PagOff /\ ReqOff /\ ErrOff /\ KeyOff /\ LimOff /\ CliOff /\ BkOff
SpecQuery == InitQuery /\ [][QueryNext]_vars

InitSerialize == SerInit /\ PagOff /\ ReqOff /\ ErrOff /\ KeyOff /\ LimOff /\ CliOff /\ BkOff
SpecSerialize == InitSerialize /\ [][SerNext]_vars

InitClient == CliInit /\ PagOff /\ ReqOff /\ ErrOff /\ KeyOff /\ ResOff /\ BkOff
SpecClient == InitClient /\ [][CliNext]_vars

InitBackoff ==
    BkInit /\ PagOff /\ ReqOff /\ ErrOff /\ KeyOff /\ ResOff /\ LimOff /\ CliOff
SpecBackoff == InitBackoff /\ [][BkNext]_vars

InitOperation == OpInit /\ PagOff /\ ErrOff /\ KeyOff /\ ResOff /\ LimOff /\ CliOff /\ BkOff
SpecOperation == InitOperation /\ [][ReqNext]_vars

InitRequest == ReqInit /\ PagOff /\ ErrOff /\ KeyOff /\ ResOff /\ LimOff /\ CliOff /\ BkOff
SpecRequest == InitRequest /\ [][ReqNext]_vars

\* every step of an operation is eventually taken: the engine's own code runs, a
\* backoff timer elapses, and the transport settles (at the latest by the abort
\* of the request's timeout timer)
SpecRequestFair == InitRequest /\ [][ReqNext]_vars /\ WF_vars(ReqNext)

(***************************************************************************)
(* Properties of the pagination engine                                     *)
(***************************************************************************)
Last(s) == s[Len(s)]

\* every call of the fetcher that has settled resolved with a page
NoRejectedFetch == Len(fetchLog) = Len(responses) + (IF pc = "await" THEN 1 ELSE 0)

IsPrefix(s, t) == Len(s) <= Len(t) /\ \A i \in 1..Len(s) : s[i] = t[i]

\* the pages are all non-empty and only the last has nextPage null
OnlyLastPageIsFinal ==
    /\ responses # <<>>
    /\ \A i \in 1..Len(responses) : Len(responses[i].data) > 0
    /\ \A i \in 1..(Len(responses) - 1) : responses[i].nextPage.tag = "number"
    /\ Last(responses).nextPage.tag = "null"

\* C1: when the fetcher returned non-empty pages p1..pn of which only pn has
\* nextPage null, an item iterator without maxItems that has reported done has
\* yielded exactly p1 ++ ... ++ pn, in order, and has called the fetcher n times.
C1_YieldsAllPagesInOrder ==
    (/\ kind = "item"
     /\ ~maxItems.given
     /\ pc = "idle"
     /\ lastResult = "done"
     /\ NoRejectedFetch
     /\ OnlyLastPageIsFinal)
    => /\ yielded = Flatten(responses)
       /\ Len(fetchLog) = Len(responses)

C1_Witness ==
    /\ kind = "item"
    /\ ~maxItems.given
    /\ pc = "idle"
    /\ lastResult = "done"
    /\ NoRejectedFetch
    /\ OnlyLastPageIsFinal
    /\ Len(responses) = 3
    /\ Len(yielded) >= 4

\* C2: with maxItems = n the item iterator never yields more than n items, what
\* it yields is a prefix of the served items in page-then-within-page order, and
\* once it has reported done it has yielded exactly min(n, items served).
C2_MaxItemsCap ==
    (kind = "item" /\ maxItems.given)
    => /\ Len(yielded) <= maxItems.n
       /\ IsPrefix(yielded, Flatten(responses))
       /\ (pc = "idle" /\ lastResult = "done")
          => Len(yielded) = Min(maxItems.n, Len(Flatten(responses)))

C2_Witness ==
    /\ kind = "item"
    /\ maxItems = Given(3)
    /\ lastResult = "done"
    /\ Len(yielded) = 3
    /\ Len(Flatten(responses)) > 3
    /\ hasMore

\* C3: once n = maxItems items have been yielded no fetch is ever in progress;
\* when the first k pages hold at least n items at most k fetches are made
\* (fetches that rejected aside), and with n = 0 the fetcher is never called.
C3_NoFetchBeyondCap ==
    (kind = "item" /\ maxItems.given)
    => /\ totalReturned >= maxItems.n => pc = "idle"
       /\ \A k \in 1..Len(responses) :
            Len(Flatten(SubSeq(responses, 1, k))) >= maxItems.n
            => Len(responses) + (IF pc = "await" THEN 1 ELSE 0) <= k
       /\ maxItems.n = 0 => fetchLog = <<>>

C3_Witness ==
    /\ kind = "item"
    /\ maxItems = Given(2)
    /\ totalReturned = 2
    /\ Len(responses) = 1
    /\ currentIndex >= Len(currentItems)
    /\ hasMore
    /\ lastResult = "done"

\* the three terminal conditions of the item iterator, read at a step of next()
C4_BufferExhaustedAtEnd ==
    /\ pc = "idle"
    /\ currentIndex >= Len(currentItems)
    /\ responses # <<>>
    /\ Last(responses).nextPage.tag \in {"null", "undefined"}
C4_FetchedEmptyPage ==
    /\ pc = "await"
    /\ Len(responses') = Len(responses) + 1
    /\ Len(Last(responses').data) = 0
C4_CapReached ==
    /\ pc = "idle"
    /\ maxItems.given
    /\ totalReturned >= maxItems.n

\* C4: a next() of the item iterator that settles without an error returns done
\* exactly when (a) the buffer is exhausted and the last page had no nextPage,
\* (b) the page just fetched is empty or (c) maxItems items were yielded;
\* otherwise it yields the next served item. The fetcher is never called after a
\* page whose nextPage was null or undefined.
C4_DoneExactlyOnTerminal ==
    [][kind = "item" =>
        /\ (pc' = "idle" /\ lastResult' # "error")
           => /\ (lastResult' = "done")
                 <=> (C4_BufferExhaustedAtEnd \/ C4_FetchedEmptyPage \/ C4_CapReached)
              /\ (lastResult' # "done")
                 => /\ lastResult' = "value"
                    /\ Len(yielded) < Len(Flatten(responses'))
                    /\ yielded' = Append(yielded, Flatten(responses')[Len(yielded) + 1])
        /\ (fetchLog' # fetchLog)
           => (responses = <<>> \/ Last(responses).nextPage.tag = "number")
      ]_vars

C4_Witness ==
    /\ kind = "item"
    /\ lastResult = "done"
    /\ Len(responses) = 2
    /\ Len(responses[1].data) = 2
    /\ Len(responses[2].data) = 0
    /\ responses[2].nextPage.tag = "number"
    /\ Len(yielded) = 2

\* C5: the page iterator yields the first page it fetches even when it is empty,
\* a later empty page is not yielded and makes next() return done, every other
\* page is yielded, and no page is fetched after one whose nextPage was null.
C5_FirstPageAlwaysYielded ==
    [][kind = "page" =>
        /\ (pc = "await" /\ Len(responses') = Len(responses) + 1)
           => IF Len(responses') >= 2 /\ Len(Last(responses').data) = 0
              THEN lastResult' = "done" /\ yielded' = yielded
              ELSE lastResult' = "value" /\ yielded' = Append(yielded, Last(responses'))
        /\ (fetchLog' # fetchLog)
           => (responses = <<>> \/ Last(responses).nextPage.tag = "number")
      ]_vars

C5_Witness ==
    /\ kind = "page"
    /\ Len(responses) = 3
    /\ Len(responses[1].data) = 0
    /\ Len(responses[2].data) > 0
    /\ Len(responses[3].data) = 0
    /\ yielded = <<responses[1], responses[2]>>
    /\ lastResult = "done"

\* C6: every page descriptor passed to the fetcher has size min(pageSize, 1000),
\* with 50 for a pageSize that is not given (undefined or 0), and the k-th fetch
\* asks for page startPage + k - 1 (1 when startPage is not given), whatever
\* nextPage the remote returned (counted over fetches that resolved).
C6_PageDescriptors ==
    LET size == IF options.pageSize.given /\ options.pageSize.n # 0
                THEN (IF options.pageSize.n <= 1000 THEN options.pageSize.n ELSE 1000)
                ELSE 50
        first == IF options.startPage.given /\ options.startPage.n # 0
                 THEN options.startPage.n ELSE 1
    IN  \A k \in 1..Len(fetchLog) :
            /\ fetchLog[k].size = size
            /\ NoRejectedFetch => fetchLog[k].number = first + k - 1

C6_Witness ==
    /\ options.pageSize = Given(5000)
    /\ options.startPage = Given(5)
    /\ Len(fetchLog) = 3
    /\ Len(responses) = 2
    /\ responses[1].nextPage = NextPageNumber(2)
    /\ responses[2].nextPage = NextPageNumber(2)
    /\ fetchLog[3] = [number |-> 7, size |-> 1000]

(***************************************************************************)
(* Properties of the request executor and its retry policy                 *)
(***************************************************************************)
\* the attempt failed with an error of RateLimit (429) or Server (5xx) kind
FailedRetryably(r) == ~r.ok /\ r.error.kind \in {"RateLimit", "Server"}
FailedFinally(r) == ~r.ok /\ r.error.kind \notin {"RateLimit", "Server"}

\* C7: an attempt of requestWithRetry is followed by another one only if it
\* failed with a RateLimit or Server error, and such a failure is retried while
\* retries remain; a failure of any other kind (Validation, NotFound,
\* Authentication, Generic, Network, Timeout, ...) is the last attempt and is
\* what the operation rejects with (one attempt when it is the first); k
\* retryable failures followed by a success resolve with the success value
\* after exactly k + 1 attempts, k <= maxRetries.
C7_RetriesOnlyRateLimitAndServer ==
    rpc # "off" =>
    /\ \A i \in 1..(Len(attemptLog) - 1) : FailedRetryably(attemptLog[i])
    /\ (rpc \in {"backoff", "call"} /\ attemptLog # <<>>)
       => FailedRetryably(Last(attemptLog))
    /\ \A i \in 1..Len(attemptLog) :
          FailedFinally(attemptLog[i])
          => /\ i = Len(attemptLog)
             /\ calls = i
             /\ rpc \in {"settled", "rejected"}
             /\ rpc = "rejected" => thrown = attemptLog[i]
    /\ (rpc = "rejected" /\ FailedRetryably(Last(attemptLog)))
       => Len(attemptLog) = maxRetries + 1
    /\ rpc = "resolved"
       => /\ Last(attemptLog).ok
          /\ returned = Last(attemptLog)
          /\ calls = Len(attemptLog)
          /\ Len(attemptLog) - 1 <= maxRetries

C7_Witness ==
    /\ rpc = "rejected"
    /\ maxRetries = 3
    /\ calls = 2
    /\ attemptLog[1].error.kind = "RateLimit"
    /\ attemptLog[2].error.kind = "Timeout"
    /\ thrown = attemptLog[2]

\* C8: an operation invokes the attempt function at most maxRetries + 1 times,
\* exactly maxRetries + 1 times when every attempt fails retryably (one attempt
\* for maxRetries = 0), and it always ends, resolved or rejected.
C8_BoundedAttempts ==
    /\ [](rpc # "off" =>
            /\ calls <= maxRetries + 1
            /\ rpc = "backoff" => calls <= maxRetries
            /\ (rpc = "rejected" /\ \A i \in 1..Len(attemptLog) : FailedRetryably(attemptLog[i]))
               => calls = maxRetries + 1)
    /\ <>(rpc \in {"resolved", "rejected"})

C8_Witness ==
    /\ rpc = "rejected"
    /\ maxRetries = 3
    /\ calls = 4
    /\ \A i \in 1..4 : FailedRetryably(attemptLog[i])

\* C9: an operation that rejects rejects with the error object of its last
\* attempt, as that attempt threw it (same kind, message, status and payload),
\* never with the error of an earlier attempt.
C9_RethrowsLastError ==
    rpc = "rejected" =>
    /\ attemptLog # <<>>
    /\ ~Last(attemptLog).ok
    /\ thrown = Last(attemptLog)
    /\ thrown.id = calls
    /\ \A i \in 1..(Len(attemptLog) - 1) : thrown # attemptLog[i]

C9_Witness ==
    /\ rpc = "rejected"
    /\ maxRetries = 1
    /\ Len(attemptLog) = 2
    /\ attemptLog[1].error.kind = "RateLimit"
    /\ attemptLog[2].error.kind = "Server"
    /\ attemptLog[1].error.message # attemptLog[2].error.message
    /\ thrown.error = attemptLog[2].error

(***************************************************************************)
(* Properties of the status mapping                                        *)
(***************************************************************************)
\* C10: createErrorFromResponse maps every non-success status to an error: 401
\* and 403 to Authentication with that status, 404 to NotFound, 422 to
\* Validation with the body's errors array (empty when absent), 429 to
\* RateLimit, a status >= 500 to Server with that status, any other to the
\* generic error with that status.
C10_StatusMapping ==
    errResult # NoError =>
    /\ errResult.kind \in
          {"Authentication", "NotFound", "Validation", "RateLimit", "Server", "Generic"}
    /\ errStatus \in {401, 403}
       => errResult.kind = "Authentication" /\ errResult.statusCode = errStatus
    /\ errStatus = 404 => errResult.kind = "NotFound" /\ errResult.statusCode = 404
    /\ errStatus = 422
       => /\ errResult.kind = "Validation"
          /\ errResult.statusCode = 422
          /\ errResult.errors =
                (IF errBody.errors.given THEN errBody.errors.list ELSE <<>>)
    /\ errStatus = 429 => errResult.kind = "RateLimit" /\ errResult.statusCode = 429
    /\ errStatus >= 500
       => errResult.kind = "Server" /\ errResult.statusCode = errStatus
    /\ (errStatus < 500 /\ errStatus \notin {401, 403, 404, 422, 429})
       => errResult.kind = "Generic" /\ errResult.statusCode = errStatus

C10_Witness ==
    /\ errStatus = 403
    /\ errResult.kind = "Authentication"
    /\ errResult.statusCode = 403
    /\ errResult.message = "x"

(***************************************************************************)
(* Properties of the transcoder                                            *)
(***************************************************************************)
\* a hyphen-delimited lowercase wire key: lowercase words, of one letter or
\* more, joined by single hyphens
IsWireKey(str) ==
    /\ str # <<>>
    /\ \A i \in 1..Len(str) : IsLower(str[i]) \/ str[i] = "-"
    /\ str[1] # "-"
    /\ str[Len(str)] # "-"
    /\ \A i \in 1..(Len(str) - 1) : ~(str[i] = "-" /\ str[i + 1] = "-")

\* C18: for every key k that kebabToCamel produces from a hyphen-delimited
\* lowercase wire key, words of a single letter included,
\* kebabToCamel(camelToKebab(k)) = k.
C18_RoundTrip ==
    \A i \in 1..(Len(keyTrace) - 2) :
        (/\ keyTrace[i].fn = "kebabToCamel"
         /\ IsWireKey(keyTrace[i].arg)
         /\ keyTrace[i + 1].fn = "camelToKebab"
         /\ keyTrace[i + 2].fn = "kebabToCamel")
        => keyTrace[i + 2].out = keyTrace[i].out

\* what deserializeResource writes before the relationships, in order: id,
\* type, then every attribute under its converted key with its converted value
AttributeWrites ==
    <<Entry(IdKey, JsonScalar(resource.id)), Entry(TypeKey, JsonScalar(resource.type))>>
    \o [i \in 1..Len(resource.attributes.entries) |->
           Entry(kebabToCamel(resource.attributes.entries[i].k),
                 convertKeysToCamel(resource.attributes.entries[i].v))]
HasRelationshipEntries == resource.relationships.entries # <<>>
\* the decoded object without its relationships
WithoutRelationships == SelectSeq(decoded, LAMBDA e : e.k # RelationshipsKey)

ListOfData(data) ==
    IF data.t = "null" THEN <<>>
    ELSE IF data.t = "one" THEN <<data.refs[1]>>
    ELSE data.refs

\* C20: when the wire resource has at least one relationship entry the decoded
\* object holds, under the key relationships, a map with exactly the camel-cased
\* names, each with an ordered list of link references: the empty list for
\* wire data null, a one-element list for a single reference, the same list in
\* the same order for a list (of two entries that convert to the same name, the
\* later one's); when the resource has no relationship entry (the map left out
\* or empty) the key relationships is absent, unless an attribute of that
\* name put it there.
C20_RelationshipLists ==
    dpc = "done"
    => LET rels == resource.relationships.entries
       IN  /\ rels # <<>>
              => /\ HasKey(decoded, RelationshipsKey)
                 /\ Lookup(decoded, RelationshipsKey).t = "relationships"
                 /\ LET m == Lookup(decoded, RelationshipsKey).entries
                    IN  /\ \A j \in 1..Len(m) :
                             /\ m[j].v.t = "links"
                             /\ \E i \in 1..Len(rels) : m[j].k = kebabToCamel(rels[i].k)
                        /\ \A i \in 1..Len(rels) :
                             /\ HasKey(m, kebabToCamel(rels[i].k))
                             /\ (\A i2 \in (i + 1)..Len(rels) :
                                    kebabToCamel(rels[i2].k) # kebabToCamel(rels[i].k))
                                => Lookup(m, kebabToCamel(rels[i].k)).refs
                                   = ListOfData(rels[i].v)
           /\ (/\ rels = <<>>
               /\ \A i \in 1..Len(resource.attributes.entries) :
                    kebabToCamel(resource.attributes.entries[i].k) # RelationshipsKey)
              => ~HasKey(decoded, RelationshipsKey)

\* a relationship with data null beside one with a single reference
C20_Witness ==
    /\ dpc = "done"
    /\ resource.relationships =
         Present(<<Entry(<<"a", "-", "b">>, DataNull),
                   Entry(<<"c">>, DataOne(LinkRef("7", "x")))>>)
    /\ HasKey(decoded, RelationshipsKey)
    /\ Lookup(decoded, RelationshipsKey).entries =
         <<Entry(<<"a", "B">>, RelationshipList(<<>>)),
           Entry(<<"c">>, RelationshipList(<<LinkRef("7", "x")>>))>>

(***************************************************************************)
(* Properties of the rate limiter                                          *)
(***************************************************************************)
\* how many entries of a log carry the time t
CountAt(log, t) == Cardinality({i \in 1..Len(log) : log[i] = t})
\* how many entries of the log were recorded within the trailing windowMs
RecordedWithinWindow ==
    Cardinality({i \in 1..Len(requests) : now - requests[i] <= limiter.windowMs})

\* C13: on an enabled limiter isThrottling is true iff
\* currentCount >= maxRequests * throttleThreshold and isLimited is true iff
\* currentCount >= maxRequests, as properties of the state and as what the two
\* getters return (with maxRequests 5 and threshold 0.8: not throttling at 3,
\* throttling at 4, limited at 5).
C13_ThrottlingAndLimited ==
    limiter.enabled
    => /\ IsThrottling
          <=> RecordedWithinWindow * 100 >= limiter.maxRequests * limiter.throttlePct
       /\ IsLimited <=> RecordedWithinWindow >= limiter.maxRequests
       /\ lastCall.op = "isThrottling"
          => (lastCall.value
              <=> Len(requests) * 100 >= limiter.maxRequests * limiter.throttlePct)
       /\ lastCall.op = "isLimited"
          => (lastCall.value <=> Len(requests) >= limiter.maxRequests)
       /\ (limiter.maxRequests = 5 /\ limiter.throttlePct = 80)
          => /\ RecordedWithinWindow = 3 => ~IsThrottling
             /\ RecordedWithinWindow = 4 => IsThrottling /\ ~IsLimited
             /\ RecordedWithinWindow = 5 => IsLimited

\* isThrottling has just returned true at 4 of 5 requests, threshold 0.8
C13_Witness ==
    /\ limiter.enabled
    /\ limiter.maxRequests = 5
    /\ limiter.throttlePct = 80
    /\ Len(requests) = 4
    /\ lastCall.op = "isThrottling"
    /\ lastCall.value = TRUE
    /\ ~IsLimited

\* C14: currentCount is the number of requests recorded within the trailing
\* windowMs, and a read leaves only those in the log; once more than windowMs
\* has passed since the last recorded request it is 0, with no reset; and no
\* step brings back an entry: the log only ever gains the current time.
C14_WindowInv ==
    /\ CurrentCount = RecordedWithinWindow
    /\ lastCall.op = "currentCount"
       => /\ lastCall.value = Len(requests)
          /\ \A i \in 1..Len(requests) : now - requests[i] <= limiter.windowMs
    /\ (\A i \in 1..Len(requests) : now - requests[i] > limiter.windowMs)
       => CurrentCount = 0
C14_NoReappearing ==
    \A t \in 0..MaxTime :
        /\ t # now => CountAt(requests', t) <= CountAt(requests, t)
        /\ now - t > limiter.windowMs => CountAt(Pruned', t) = 0
C14_TrailingWindow == []C14_WindowInv /\ [][C14_NoReappearing]_vars

\* currentCount has just returned 0, pruning three requests, none recorded since
C14_Witness ==
    /\ lastCall.op = "currentCount"
    /\ lastCall.value = 0
    /\ lastCall.pruned = 3
    /\ requests = <<>>
    /\ now > limiter.windowMs

\* the delay is 0 strictly below the threshold and positive strictly above it,
\* and when the limiter is limited it is positive and at most windowMs
C15_ZeroBelowPositiveAbove ==
    /\ CurrentCount * 100 < limiter.maxRequests * limiter.throttlePct
       => GetDelayMs.num = 0
    /\ (limiter.enabled
        /\ CurrentCount * 100 > limiter.maxRequests * limiter.throttlePct)
       => RatPos(GetDelayMs)
    /\ IsLimited
       => RatPos(GetDelayMs) /\ RatLeq(GetDelayMs, Ratio(limiter.windowMs, 1))
    /\ lastCall.op = "getDelayMs" => lastCall.value = GetDelayMs

C16_DisabledInv ==
    ~limiter.enabled
    => /\ requests = <<>>
       /\ CurrentCount = 0
       /\ ~IsThrottling
       /\ ~IsLimited
       /\ GetDelayMs.num = 0
       /\ lastCall.op = "currentCount" => lastCall.value = 0
       /\ lastCall.op \in {"isThrottling", "isLimited"} => lastCall.value = FALSE
       /\ lastCall.op = "getDelayMs" => lastCall.value.num = 0
C16_RecordIsNoOp ==
    (~limiter.enabled /\ lastCall'.op = "recordRequest") => requests' = requests
C16_DisabledNeverTracks == []C16_DisabledInv /\ [][C16_RecordIsNoOp]_vars

\* recordRequest has just been called on a disabled limiter
C16_Witness ==
    /\ ~limiter.enabled
    /\ lastCall.op = "recordRequest"
    /\ requests = <<>>
    /\ now > 0

\* C17: remaining = max(0, maxRequests - currentCount), never negative, as
\* remaining returns it and as getStatus reports it, together with currentCount,
\* maxRequests, windowMs, isThrottling and isLimited equal to the getters.
C17_Remaining ==
    /\ Remaining >= 0
    /\ Remaining + RecordedWithinWindow >= limiter.maxRequests
    /\ Remaining > 0 => Remaining + RecordedWithinWindow = limiter.maxRequests
    /\ lastCall.op = "remaining" => lastCall.value = Remaining
    /\ lastCall.op = "getStatus"
       => /\ lastCall.value.remaining = Remaining
          /\ lastCall.value.currentCount = CurrentCount
          /\ lastCall.value.currentCount = Len(requests)
          /\ lastCall.value.maxRequests = limiter.maxRequests
          /\ lastCall.value.windowMs = limiter.windowMs
          /\ lastCall.value.enabled = limiter.enabled
          /\ lastCall.value.isThrottling = IsThrottling
          /\ lastCall.value.isLimited = IsLimited

\* getStatus has just reported remaining 0 with more requests in the window
\* than maxRequests
C17_Witness ==
    /\ lastCall.op = "getStatus"
    /\ lastCall.value.remaining = 0
    /\ lastCall.value.currentCount = limiter.maxRequests + 1
    /\ lastCall.value.isLimited

(***************************************************************************)
(* Properties of the request executor: transport failures, 204             *)
(***************************************************************************)
\* C12: every attempt in which the transport failed is rejected with a
\* classified error and no result: an abort by the timeout timer with a Timeout
\* error carrying the timeout in force, every other failure of the transport
\* with a Network error carrying the failure it wraps.
C12_TransportFailuresClassified ==
    \A i \in 1..Len(attemptLog) :
        LET r == attemptLog[i]
        IN  /\ r.transport = "AbortError"
               => /\ ~r.ok
                  /\ ~r.value.defined
                  /\ r.error.kind = "Timeout"
                  /\ r.error.timeout = RequestTimeout
            /\ r.transport \in {"TypeErrorFetch", "TypeErrorOther"}
               => /\ ~r.ok
                  /\ ~r.value.defined
                  /\ r.error.kind = "Network"
                  /\ r.error.cause = r.transport

\* C11: whichever operation was called, when requestWithRetry resolved with
\* no content (a successful 204) and the operation has settled, the operation
\* resolved with an empty result and deserialize was never called.
C11_NoContentShortCircuits ==
    (/\ rpc = "resolved"
     /\ ~returned.value.defined
     /\ opResult # OpPending)
    => /\ opResult.ok
       /\ opResult.value = UndefinedValue
       /\ deserializeCalls = <<>>

\* delete resolved with undefined after a 204, without a call of deserialize
C11_DeleteShortCircuits ==
    (/\ operation = "delete"
     /\ rpc = "resolved"
     /\ ~returned.value.defined
     /\ opResult # OpPending)
    => /\ opResult = OpReturns(UndefinedValue)
       /\ deserializeCalls = <<>>

\* an operation that decodes resolved with the decoded content of a 200
C11_DecodedContent ==
    /\ operation = "list"
    /\ opResult.ok
    /\ opResult.value.kind = "list"
    /\ Len(opResult.value.data) = 2
    /\ Len(deserializeCalls) = 1

(***************************************************************************)
(* Properties of the rate limiter: the getters agree with each other       *)
(***************************************************************************)
\* C30: in every state of the limiter (throttleThreshold within (0, 1]), a
\* limited limiter is throttling, an enabled limiter is limited exactly when
\* nothing remains, and a positive delay is only given while throttling.
C30_GettersAgree ==
    /\ limiter.throttlePct > 0 /\ limiter.throttlePct <= 100
    /\ IsLimited => IsThrottling
    /\ limiter.enabled => (IsLimited <=> Remaining = 0)
    /\ RatPos(GetDelayMs) => IsThrottling

\* getStatus has just reported a limiter with throttleThreshold 1 that is
\* limited and throttling with nothing remaining, after reporting a delay
C30_Witness ==
    /\ lastCall.op = "getStatus"
    /\ limiter.throttlePct = 100
    /\ lastCall.value.isLimited
    /\ lastCall.value.isThrottling
    /\ lastCall.value.remaining = 0
    /\ RatPos(GetDelayMs)

(***************************************************************************)
(* Properties of the pagination engine: the end of an iteration            *)
(***************************************************************************)
\* C28: once next() of an item iterator or of a page iterator has returned
\* done, whatever ended the iteration, the next call of next() on the same
\* cursor returns done again and does not call the fetcher.
C28_EndIsSticky ==
    [][lastResult = "done" => (lastResult' = "done" /\ fetchLog' = fetchLog)]_vars

\* the same for the iterations ended by maxItems or by a page without a next
\* page: there the end is sticky
C28_EndIsStickyWithoutMore ==
    [][(/\ lastResult = "done"
        /\ (~hasMore \/ MaxItemsReached(maxItems, totalReturned)))
       => (lastResult' = "done" /\ fetchLog' = fetchLog)]_vars

(***************************************************************************)
(* Properties of the transcoder: when deserialize throws                   *)
(***************************************************************************)
\* what the envelope's data is: left out, null, a scalar, an object or a list
DataKind(response) ==
    IF ~HasData(response.body)
    THEN "absent"
    ELSE IF response.body.data.isArray
    THEN "list"
    ELSE IF IsResourceObject(response.body.data.items[1])
    THEN "object"
    ELSE response.body.data.items[1].nonObject

\* C26: deserialize throws exactly when the envelope's data is neither an
\* object nor a list (left out, null or a scalar); it returns for every object
\* and every list, also when a resource has no attributes or no relationships.
C26_ThrowsIffNotObjectOrList ==
    dpc = "done"
    => (~decoded.ok <=> DataKind(resource) \notin {"object", "list"})

\* deserialize throws exactly when data is left out or null, or is a list
\* holding a null; an object always decodes
C26_ThrowsOnNullOrAbsent ==
    dpc = "done"
    => /\ ~decoded.ok
          <=> \/ DataKind(resource) \in {"absent", "null"}
              \/ /\ DataKind(resource) = "list"
                 /\ \E i \in 1..Len(resource.body.data.items) :
                        resource.body.data.items[i] = NullItem
       /\ DataKind(resource) = "object" => decoded.ok

(***************************************************************************)
(* Properties of list and listAll: the pagination meta                     *)
(***************************************************************************)
\* C23: every result of client.list carries a meta; a key the remote leaves
\* out of its meta is defaulted (currentPage 1, nextPage null, prevPage null,
\* totalPages 1, totalCount 0); when the remote leaves the meta out
\* altogether, the meta returned has nextPage null, so listAll makes no fetch
\* after that page (it is the last page received and no fetch is in flight):
\* over a remote that never sends a meta it fetches once, yields the items of
\* that page and ends.
C23_ListMetaDefaults ==
    \A i \in 1..Len(responses) :
        LET w == responses[i].wireMeta
            m == responses[i].meta
        IN  /\ m.given
            /\ w.given
               => /\ m.currentPage = IF w.currentPage.given THEN w.currentPage.n ELSE 1
                  /\ m.nextPage = IF w.nextPage.tag = "number" THEN w.nextPage
                                  ELSE NextPageNull
                  /\ m.prevPage = IF w.prevPage.tag = "number" THEN w.prevPage
                                  ELSE NextPageNull
                  /\ m.totalPages = IF w.totalPages.given THEN w.totalPages.n ELSE 1
                  /\ m.totalCount = IF w.totalCount.given THEN w.totalCount.n ELSE 0
            /\ ~w.given
               => /\ m.nextPage = NextPageNull
                  /\ ~hasMore
                  /\ i = Len(responses)
                  /\ pc # "await"
                  /\ (lastResult = "done" => totalReturned = Len(Flatten(responses)))

\* listAll over a remote that sent two resources and no meta has yielded both
\* and returned done after a single fetch
C23_Witness ==
    /\ Len(responses) = 1
    /\ ~responses[1].wireMeta.given
    /\ Len(responses[1].data) = 2
    /\ Len(yielded) = 2
    /\ lastResult = "done"
    /\ Len(fetchLog) = 1

(***************************************************************************)
(* Properties of the query parameters                                      *)
(***************************************************************************)
\* the query has the parameter name with the value value
HasParam(query, name, value) ==
    \E i \in 1..Len(query) : query[i].k = name /\ query[i].v = value
FilterParam(field) == FilterKey \o Bracketed(camelToKebab(field))

\* the plain values and the arrays of the filter reach the query as
\* filter[<field-in-wire-case>] = value, arrays joined with commas
FilterPlainAndArrays ==
    resource.filter.given
    => \A i \in 1..Len(resource.filter.entries) :
          LET e == resource.filter.entries[i]
          IN  /\ e.v.t = "scalar" => HasParam(decoded, FilterParam(e.k), e.v.v)
              /\ e.v.t = "array" => HasParam(decoded, FilterParam(e.k), Join(e.v.items))

\* C22: the query of a list call has, for each comparison operator present in
\* an entry of the filter, the parameter filter[<field-in-wire-case>][<op>]
\* with the operator's value; a plain value gives filter[<field-in-wire-case>]
\* and an array its items joined with commas.
C22_OperatorFilters ==
    (dpc = "done" /\ resource.filter.given)
    => /\ FilterPlainAndArrays
       /\ \A i \in 1..Len(resource.filter.entries) :
             LET e == resource.filter.entries[i]
             IN  IsOperatorObject(e.v)
                 => \A j \in 1..Len(e.v.entries) :
                       HasParam(decoded,
                                FilterParam(e.k) \o Bracketed(e.v.entries[j].k),
                                e.v.entries[j].v.v)

\* what the query has for an operator: filter[<field-in-wire-case>[<op>]],
\* the operator's brackets inside those of the field; the plain values and
\* the arrays come out as filter[<field-in-wire-case>]
C22_OperatorInsideFieldBrackets ==
    (dpc = "done" /\ resource.filter.given)
    => /\ FilterPlainAndArrays
       /\ \A i \in 1..Len(resource.filter.entries) :
             LET e == resource.filter.entries[i]
             IN  IsOperatorObject(e.v)
                 => \A j \in 1..Len(e.v.entries) :
                       HasParam(decoded,
                                FilterKey
                                    \o Bracketed(camelToKebab(e.k)
                                                 \o Bracketed(e.v.entries[j].k)),
                                e.v.entries[j].v.v)

(***************************************************************************)
(* Properties of serialize                                                 *)
(***************************************************************************)
\* the input keys that become attributes: all but id and type
IsAttributeKey(k) == k # IdKey /\ k # TypeKey

\* C21: the resource serialize returns has an id exactly when the caller
\* gave one (undefined and the empty string are no id), and then that id; its
\* type is the type given; every key of the data but id and type is among the
\* attributes in its camelToKebab form; and every attribute is such a key,
\* with the value of the last input key of that wire form, its keys converted
\* at every depth. The data's id and type are in no attribute.
C21_SerializeEnvelope ==
    dpc = "done"
    => LET data == resource.data
           attrs == decoded.attributes
       IN  /\ decoded.hasId <=> (resource.id.given /\ resource.id.s # "")
           /\ decoded.hasId => decoded.id = resource.id.s
           /\ decoded.type = resource.type
           /\ \A i \in 1..Len(data) :
                 IsAttributeKey(data[i].k) => HasKey(attrs, camelToKebab(data[i].k))
           /\ \A j \in 1..Len(attrs) :
                 \E i \in 1..Len(data) :
                     /\ IsAttributeKey(data[i].k)
                     /\ camelToKebab(data[i].k) = attrs[j].k
                     /\ attrs[j].v = convertKeysToKebab(data[i].v)
                     /\ \A l \in (i + 1)..Len(data) :
                           camelToKebab(data[l].k) = attrs[j].k
                           => ~IsAttributeKey(data[l].k)
           /\ \A j, l \in 1..Len(attrs) : attrs[j].k = attrs[l].k => j = l

\* an update with id 123 whose data has an id and the key aB with a nested
\* value: the resource has the id 123 and the one attribute a-b, the keys of
\* its value in wire case
C21_Witness ==
    /\ dpc = "done"
    /\ resource.id = IdString("123")
    /\ Len(resource.data) = 2
    /\ resource.data[1].k = IdKey
    /\ resource.data[2].k = <<"a", "B">>
    /\ decoded.hasId
    /\ decoded.id = "123"
    /\ decoded.attributes =
         <<Entry(<<"a", "-", "b">>,
                 JsonObject(<<Entry(<<"c", "-", "d">>,
                                    JsonArray(<<JsonObject(<<Entry(<<"e", "-", "f">>,
                                                                   JsonNull)>>)>>))>>))>>

(***************************************************************************)
(* Properties of concurrent requests: order of the calls, the timer, the   *)
(* limit                                                                   *)
(***************************************************************************)
AttemptCalls == <<"waitIfNeeded", "recordRequest", "fetch">>
AttemptSettled(c) == callers[c].pc \in {"backoff", "done", "failed"}

\* in every attempt the calls are made in the order waitIfNeeded,
\* recordRequest, fetch, each once; the request is recorded when the fetch is
\* awaited; recordRequest has been called once per attempt past its wait
CallsInOrder(c) ==
    /\ IsPrefix(callers[c].trace, AttemptCalls)
    /\ callers[c].pc \in {"idle", "wait"}
       => callers[c].records = callers[c].attempt - Len(callers[c].trace)
    /\ (callers[c].pc = "fetch" \/ AttemptSettled(c))
       => /\ callers[c].trace = AttemptCalls
          /\ callers[c].records = callers[c].attempt

\* C24 (as claimed): each attempt calls waitIfNeeded, recordRequest and the
\* transport in this order, once each, recording before the outcome is known,
\* and every attempt adds one entry to the limiter's log: an operation that
\* has made k attempts has added k entries.
C24_EachAttemptAddsAnEntry ==
    \A c \in Callers :
        /\ CallsInOrder(c)
        /\ (callers[c].pc = "fetch" \/ AttemptSettled(c))
           => callers[c].appended = callers[c].attempt

\* C24 (amended): the same order of calls; every attempt adds one entry to
\* the log of an enabled limiter, and none to the log of a disabled one, whose
\* recordRequest is called all the same.
C24_EachAttemptRecordsWhenEnabled ==
    \A c \in Callers :
        /\ CallsInOrder(c)
        /\ (callers[c].pc = "fetch" \/ AttemptSettled(c))
           => callers[c].appended = IF limiter.enabled THEN callers[c].attempt ELSE 0

\* a caller failed for good after a retry: two attempts, two entries recorded
\* in the enabled limiter's log
C24_Witness ==
    \E c \in Callers :
        /\ limiter.enabled
        /\ callers[c].pc = "failed"
        /\ callers[c].attempt = 2
        /\ callers[c].records = 2
        /\ callers[c].appended = 2

\* C27: whenever request() is not suspended in fetch (it has settled, or has
\* not reached the timer yet) no timer of it is armed; and a timer goes off
\* only while its request awaits the fetch.
C27_NoTimerArmed ==
    \A c \in Callers :
        callers[c].pc # "fetch" => callers[c].timer \in {"none", "cleared"}
C27_FiresOnlyInFlight ==
    \A c \in Callers :
        (callers'[c].timer = "fired" /\ callers[c].timer # "fired")
        => callers[c].pc = "fetch"
C27_TimerReleased == []C27_NoTimerArmed /\ [][C27_FiresOnlyInFlight]_vars

\* both callers have settled, one after a timeout and one after a network
\* failure, and their timers are cleared
C27_Witness ==
    /\ callers[1].pc = "failed"
    /\ callers[1].timer = "cleared"
    /\ callers[1].attempt = 1
    /\ callers[2].pc = "done"
    /\ callers[2].timer = "cleared"
    /\ callers[2].attempt = 2

\* C29: with the limiter enabled, however the callers interleave, the
\* requests recorded within the window never number more than maxRequests.
C29_WindowNeverOverLimit ==
    limiter.enabled => CurrentCount <= limiter.maxRequests

\* two callers passed waitIfNeeded on the same count of 0 without any wait, and
\* both recorded: two requests at time 0 with maxRequests 1
C29_BothPassedOnSameCount ==
    /\ limiter.enabled
    /\ limiter.maxRequests = 1
    /\ now = 0
    /\ requests = <<0, 0>>
    /\ \A c \in Callers : callers[c].attempt = 1 /\ callers[c].pc = "fetch"

=============================================================================
